---- MODULE Spec2Model ----
(***************************************************************************)
(* Model of the salamyar backend: the selection store                      *)
(* (app/services/product_selection_service.py, ProductSelectionService),   *)
(* the search for vendor overlaps                                          *)
(* (app/services/similar_products_service.py, SimilarProductsService) and  *)
(* the endpoints that reach them (app/api/v1/endpoints/selections.py).     *)
(*                                                                         *)
(* The specifications share the variables:                                 *)
(*   Spec         every method of the store is one action: the body the    *)
(*                code runs inside `with self._lock`, one call after       *)
(*                another;                                                 *)
(*   SpecThreads  threads run the same bodies statement by statement,      *)
(*                acquiring and releasing the lock explicitly;             *)
(*   SpecFetch    one call of _find_similar_products_for_item, page by     *)
(*                page, against a source that answers as it likes;         *)
(*   SpecAnalyze  find_vendor_overlaps called with a list of selections,   *)
(*                suspended at the page request of each of them, up to     *)
(*                the report it returns;                                   *)
(*   SpecConfirm  the store's endpoints and a run of the confirm endpoint  *)
(*                suspended at each of its page requests;                  *)
(*   SpecRunFair  a run on a store that no other handler touches, whose    *)
(*                steps are eventually taken (weak fairness);              *)
(*   SpecTimeout  SpecConfirm with a caller that cancels the run while it  *)
(*                awaits a page;                                           *)
(*   SpecSearch   search_vendor_overlap of the bot                         *)
(*                (basalam_bot/app/search_engine.py), blocked at the GET   *)
(*                of each of its terms, up to its return or its raise.     *)
(***************************************************************************)
EXTENDS Integers, Sequences, FiniteSets, TLC

\* ------------------------------------------------------------ bounds
\* product ids offered to the store are 1..MaxProductId
MaxProductId == 3
\* datetime.now() readings are 0..MaxTime
MaxTime == 1
\* at most MaxSelects selections are created in one run (caps _next_id)
MaxSelects == 3
\* the page requests counted in one run or one direct fetch: more than any of
\* them sends (caps the history counter served.requests)
MaxRequests == 16

\* ------------------------------------------------------------ domains
ProductIds == 1..MaxProductId
Times == 0..MaxTime
VendorIds == {71, 72}
\* Optional[str]: None is the absent value; a request carries no session (the
\* empty string, falsy as None is) or the id of a search session
NoneSession == "<None>"
SessionIds == {"", "s1"}

\* every catalog product belongs to one vendor
VendorOf(product_id) == IF product_id % 2 = 1 THEN 71 ELSE 72

\* SelectProductRequest. product_name, vendor_name, status_id and image_url
\* are copied into the selection exactly as vendor_id is and no branch of the
\* store reads them; vendor_id stands for all of them.
SelectProductRequest ==
    {[product_id |-> p, vendor_id |-> VendorOf(p), search_session_id |-> s] :
        p \in ProductIds, s \in SessionIds}

\* the value of an Optional[SelectedProduct] that is None
NoneProduct ==
    [id |-> 0, product_id |-> 0, vendor_id |-> 0, selected_at |-> 0,
     search_session_id |-> NoneSession]

\* truth value of an Optional[str] in `if request.search_session_id:`
Truthy(s) == s # NoneSession /\ s # ""

VARIABLES
    selected_products,  \* dict id -> SelectedProduct, as the sequence of its values in insertion order
    search_sessions,    \* dict search_session_id -> selection id
    next_id,            \* self._next_id
    issued,             \* history: the ids given to new selections, in the order given
    call,               \* Spec: the call in flight, [op, arg]
    result,             \* Spec: what the call in flight returns
    lock,               \* SpecThreads: the thread holding self._lock, 0 when free
    pc,                 \* SpecThreads: each thread's position
    frame,              \* SpecThreads: each thread's arguments and locals
    service,            \* the SimilarProductsService instance: its two attributes
    fetch,              \* _find_similar_products_for_item: position and locals of the call
    log,                \* history: the page requests of the current fetch with their responses
    aggregation,        \* find_vendor_overlaps / confirm_shopping_cart: position and locals
    served              \* history: what the source has returned during the current run

store == <<selected_products, search_sessions, next_id, issued>>
threadvars == <<lock, pc, frame>>
aggvars == <<service, fetch, log, aggregation, served>>
vars == <<selected_products, search_sessions, next_id, issued, call, result, lock, pc, frame,
          service, fetch, log, aggregation, served>>

\* ------------------------------------------------------------ dict helpers
SetMin(S) == CHOOSE x \in S : \A y \in S : x <= y

Reverse(s) == [i \in 1..Len(s) |-> s[Len(s) + 1 - i]]

\* key in d, for the dict of selections
HasId(products, id) == \E i \in 1..Len(products) : products[i].id = id

\* d[id]
ById(products, id) == products[CHOOSE i \in 1..Len(products) : products[i].id = id]

\* del d[id]: the other entries keep their order
DictDel(products, id) == SelectSeq(products, LAMBDA p : p.id # id)

\* d[p.id] = p: a new key goes last, an existing key keeps its place
DictSet(products, p) ==
    IF HasId(products, p.id)
    THEN [i \in 1..Len(products) |-> IF products[i].id = p.id THEN p ELSE products[i]]
    ELSE Append(products, p)

\* d[key] = id for the dict of search sessions
SessionSet(sessions, key, id) ==
    [k \in DOMAIN sessions \cup {key} |-> IF k = key THEN id ELSE sessions[k]]

\* d.get(key): 0 stands for None (ids start at 1, so `if existing_selection_id:`
\* is false exactly for a missing key)
SessionGet(sessions, key) == IF key \in DOMAIN sessions THEN sessions[key] ELSE 0

EmptyDict == [k \in {} |-> 0]

\* ------------------------------------------------------------ list.sort
\* stable insertion of x into an ascending run: after every element <= x
InsertAsc(run, x) ==
    LET n == Cardinality({i \in 1..Len(run) : run[i].selected_at <= x.selected_at})
    IN SubSeq(run, 1, n) \o <<x>> \o SubSeq(run, n + 1, Len(run))

RECURSIVE StableSortAsc(_)
StableSortAsc(s) ==
    IF s = <<>> THEN <<>>
    ELSE InsertAsc(StableSortAsc(SubSeq(s, 1, Len(s) - 1)), s[Len(s)])

\* mutant: reverse=True left out
SortBySelectedAt(products) == StableSortAsc(products)

\* products.sort(key=lambda p: p.selected_at, reverse=True): CPython reverses
\* the list, sorts it stably in ascending order and reverses the outcome
SortBySelectedAtReverse(products) == Reverse(StableSortAsc(Reverse(products)))

\* mutant: the scan compares the selection id with the product id
find_by_selection_id(products, product_id) ==
    LET hits == {i \in 1..Len(products) : products[i].id = product_id}
    IN IF hits = {} THEN NoneProduct ELSE products[SetMin(hits)]

\* ------------------------------------------------------------ the service's methods
\* _find_by_product_id: the first value of the dict with that product_id, or None
find_by_product_id(products, product_id) ==
    LET hits == {i \in 1..Len(products) : products[i].product_id = product_id}
    IN IF hits = {} THEN NoneProduct ELSE products[SetMin(hits)]

\* select_product, "Check if there's already a selection from this search
\* session": the local old_product, None when the branch is not taken
OldProduct(products, sessions, request) ==
    LET existing_selection_id == SessionGet(sessions, request.search_session_id)
    IN IF /\ Truthy(request.search_session_id)
          /\ existing_selection_id # 0
          /\ HasId(products, existing_selection_id)
       THEN ById(products, existing_selection_id)
       ELSE NoneProduct

\* mutant: the previous selection of the session is not deleted
RemovePrevious_keeps(products, sessions, request) == products

\* mutant: a mapping whose selection is gone evicts the oldest selection
RemovePrevious_stale_evicts(products, sessions, request) ==
    LET existing_selection_id == SessionGet(sessions, request.search_session_id)
    IN IF Truthy(request.search_session_id) /\ existing_selection_id # 0
       THEN IF HasId(products, existing_selection_id)
            THEN DictDel(products, existing_selection_id)
            ELSE SubSeq(products, 2, Len(products))
       ELSE products

\* the dict of selections after that branch
RemovePrevious(products, sessions, request) ==
    LET old_product == OldProduct(products, sessions, request)
    IN IF old_product # NoneProduct THEN DictDel(products, old_product.id) ELSE products

\* mutant: the selection is keyed by its product id
NewSelectedProduct_by_product(id, request, now) ==
    [id |-> request.product_id,
     product_id |-> request.product_id,
     vendor_id |-> request.vendor_id,
     selected_at |-> now,
     search_session_id |-> request.search_session_id]

\* select_product, "Create new selected product"
NewSelectedProduct(id, request, now) ==
    [id |-> id,
     product_id |-> request.product_id,
     vendor_id |-> request.vendor_id,
     selected_at |-> now,
     search_session_id |-> request.search_session_id]

\* mutant: the session's selection is not recorded
TrackSession_forgets(sessions, request, id) == sessions

\* mutant: a session that is already tracked keeps its first selection
TrackSession_first_wins(sessions, request, id) ==
    IF Truthy(request.search_session_id) /\ request.search_session_id \notin DOMAIN sessions
    THEN SessionSet(sessions, request.search_session_id, id)
    ELSE sessions

\* select_product, "Track this selection for the search session"
TrackSession(sessions, request, id) ==
    IF Truthy(request.search_session_id)
    THEN SessionSet(sessions, request.search_session_id, id)
    ELSE sessions

\* what a method's body leaves: the store, the value returned and, for
\* select_product, the selection it replaced (logged, line 53)
Outcome(products, sessions, nid, value, old_product) ==
    [products |-> products, sessions |-> sessions, next_id |-> nid,
     value |-> value, old_product |-> old_product]

\* mutant: a repeated select refreshes the selection's timestamp and session
SelectProductBody_refreshes(products, sessions, nid, request, now) ==
    LET existing == find_by_product_id(products, request.product_id)
        refreshed == NewSelectedProduct(existing.id, request, now)
        selected_product == NewSelectedProduct(nid, request, now)
    IN IF existing # NoneProduct
       THEN Outcome(DictSet(products, refreshed), sessions, nid, refreshed, NoneProduct)
       ELSE Outcome(DictSet(RemovePrevious(products, sessions, request), selected_product),
                    TrackSession(sessions, request, selected_product.id),
                    nid + 1,
                    selected_product,
                    OldProduct(products, sessions, request))

\* the body of select_product; `now` is the reading of datetime.now()
SelectProductBody(products, sessions, nid, request, now) ==
    LET existing == find_by_product_id(products, request.product_id)
        selected_product == NewSelectedProduct(nid, request, now)
    IN IF existing # NoneProduct
       THEN Outcome(products, sessions, nid, existing, NoneProduct)
       ELSE Outcome(DictSet(RemovePrevious(products, sessions, request), selected_product),
                    TrackSession(sessions, request, selected_product.id),
                    nid + 1,
                    selected_product,
                    OldProduct(products, sessions, request))

\* the body of get_selected_products: SelectedProductsResponse
GetSelectedProductsBody(products) ==
    LET sorted == SortBySelectedAtReverse(products)
    IN [products |-> sorted, total_count |-> Len(sorted)]

\* remove_product, the scan: the id of the first selection with that
\* product_id, 0 for None
FindSelectionId(products, product_id) ==
    LET hits == {i \in 1..Len(products) : products[i].product_id = product_id}
    IN IF hits = {} THEN 0 ELSE products[SetMin(hits)].id

\* mutant: the entry deleted is the one keyed by the product id
RemoveProductBody_by_key(products, sessions, nid, product_id) ==
    LET selection_id == FindSelectionId(products, product_id)
    IN IF selection_id # 0
       THEN Outcome(DictDel(products, product_id), sessions, nid, TRUE, NoneProduct)
       ELSE Outcome(products, sessions, nid, FALSE, NoneProduct)

\* the body of remove_product
RemoveProductBody(products, sessions, nid, product_id) ==
    LET selection_id == FindSelectionId(products, product_id)
    IN IF selection_id # 0
       THEN Outcome(DictDel(products, selection_id), sessions, nid, TRUE, NoneProduct)
       ELSE Outcome(products, sessions, nid, FALSE, NoneProduct)

\* mutant: the search sessions are not cleared
ClearSelectionsBody_keeps_sessions(products, sessions, nid) ==
    Outcome(<<>>, sessions, nid, Len(products), NoneProduct)

\* the body of clear_selections
ClearSelectionsBody(products, sessions, nid) ==
    Outcome(<<>>, EmptyDict, nid, Len(products), NoneProduct)

\* the body of get_selections_by_vendor
GetSelectionsByVendorBody(products, vendor_id) ==
    SortBySelectedAtReverse(SelectSeq(products, LAMBDA p : p.vendor_id = vendor_id))

\* a body that only reads
ReadOnly(value) ==
    Outcome(selected_products, search_sessions, next_id, value, NoneProduct)

\* the status the endpoint answers with: remove_selected_product raises 404
\* when remove_product returns False, the others answer 200
ResponseStatus(op, value) ==
    IF op = "remove_product" /\ value = FALSE THEN 404 ELSE 200

\* ------------------------------------------------------------ SimilarProductsService
\* __init__: the cap on the similar products kept for one selection, and the page size
max_similar_products_per_item == 100
page_size == 24

DefaultService ==
    [max_similar_products_per_item |-> max_similar_products_per_item,
     page_size |-> page_size]

\* instances whose two attributes were given other values after construction
Override(cap, size) == [max_similar_products_per_item |-> cap, page_size |-> size]

Services == {DefaultService, Override(4, 2), Override(3, 2), Override(2, 1), Override(1, 2)}

Min(a, b) == IF a <= b THEN a ELSE b

CeilDiv(a, b) == (a + b - 1) \div b

SeqsUpTo(S, n) == UNION {[1..k -> S] : k \in 0..n}

\* ---- the MLT source
\* A vendor name is the sequence of its code points: "", "a", "ab", "b".
VendorNames == {<<>>, <<97>>, <<97, 98>>, <<98>>}

\* One record of the "products" array of a response body. id 0 and vendor_id 0
\* stand for an absent (or falsy) identifier; parses tells whether building the
\* SimilarProduct from the record succeeds (float(price), field validation).
RawProduct(id, vendor_id, vendor_name, parses) ==
    [id |-> id, vendor_id |-> vendor_id, vendor_name |-> vendor_name, parses |-> parses]

RawProducts ==
    {RawProduct(1, 71, <<97>>, TRUE), RawProduct(2, 72, <<98>>, TRUE),
     RawProduct(0, 71, <<97>>, TRUE), RawProduct(3, 0, <<>>, TRUE),
     RawProduct(4, 72, <<97>>, FALSE)}

\* what one GET can come to: a 200 with a well-formed body, a status other
\* than 200, an exception of the transport, a timeout, a body that is not the
\* JSON the parser expects
FailureKinds == {"non200", "transport_error", "timeout", "malformed"}

Failure(kind) == [kind |-> kind, products |-> <<>>]

Ok(products) == [kind |-> "ok", products |-> products]

\* a page of n records of vendor 71 whose ids continue the offset, with at
\* most one record that differs: the first without id, the last without
\* vendor, or the last of another vendor
GenPage(from, n, hole) ==
    [i \in 1..n |->
        RawProduct(IF hole = "id" /\ i = 1 THEN 0 ELSE from + i,
                   IF i # n THEN 71
                   ELSE IF hole = "vendor" THEN 0
                   ELSE IF hole = "other" THEN 72 ELSE 71,
                   <<97>>, TRUE)]

\* The bodies the source may answer a request for `size` records at offset
\* `from` with. It is free to return fewer records than asked, or more. Short
\* pages are enumerated record by record; long ones are drawn from GenPage.
Pages(from, size) ==
    IF size <= 2
    THEN SeqsUpTo(RawProducts, size + 1)
    ELSE {GenPage(from, n, hole) :
             n \in {0, 1, size - 1, size, size + 1}, hole \in {"none", "id", "vendor"}}

Responses(from, size) ==
    {Failure(kind) : kind \in FailureKinds} \cup {Ok(products) : products \in Pages(from, size)}

\* ---- _parse_similar_products_response
\* mutant: no record is discarded
Kept_every_record(product) == TRUE

\* `if not product_id: continue`, `if not vendor_id: continue`, and the
\* except clause that skips a record whose SimilarProduct cannot be built
Kept(product) == product.id # 0 /\ product.vendor_id # 0 /\ product.parses

\* mutant: the record is not tagged with the selection it was fetched for
SimilarProduct_untagged(product, original_product_id) ==
    [id |-> product.id, vendor_id |-> product.vendor_id,
     vendor_name |-> product.vendor_name, original_product_id |-> 0]

SimilarProduct(product, original_product_id) ==
    [id |-> product.id, vendor_id |-> product.vendor_id,
     vendor_name |-> product.vendor_name, original_product_id |-> original_product_id]

\* mutant: a record without identifiers fails the whole page
parse_similar_products_response_strict(products_data, original_product_id) ==
    IF \E i \in 1..Len(products_data) :
          products_data[i].id = 0 \/ products_data[i].vendor_id = 0
    THEN <<>>
    ELSE [i \in 1..Len(products_data) |->
             SimilarProduct(products_data[i], original_product_id)]

parse_similar_products_response(products_data, original_product_id) ==
    LET kept == SelectSeq(products_data, Kept)
    IN [i \in 1..Len(kept) |-> SimilarProduct(kept[i], original_product_id)]

\* ---- _fetch_similar_products_page
\* every failure is logged and answered with the empty list
fetch_similar_products_page(response, original_product_id) ==
    IF response.kind = "ok"
    THEN parse_similar_products_response(response.products, original_product_id)
    ELSE <<>>

\* ---- _find_similar_products_for_item
\* while len(similar_products) < self.max_similar_products_per_item
LoopContinues_inclusive(svc, similar_products) ==
    Len(similar_products) <= svc.max_similar_products_per_item

LoopContinues(svc, similar_products) ==
    Len(similar_products) < svc.max_similar_products_per_item

\* mutant: every request asks for a full page
current_page_size_full(svc, similar_products) == svc.page_size

\* current_page_size = min(self.page_size, remaining_needed)
current_page_size(svc, similar_products) ==
    Min(svc.page_size, svc.max_similar_products_per_item - Len(similar_products))

\* mutant: a page that is one record short does not end the loop
ShortPage_one_short(page_products, size) == Len(page_products) + 1 < size

\* if len(page_products) < current_page_size: break
ShortPage_ignored(page_products, size) == FALSE

ShortPage(page_products, size) == Len(page_products) < size

\* mutant: the page is added and the loop always goes on
AfterPage_continues(similar_products, from_offset, size, page_products) ==
    [similar_products |-> similar_products \o page_products,
     from_offset |-> from_offset + Len(page_products),
     break |-> FALSE]

\* mutant: an empty page, which is also what a failed request gives, is asked
\* for again
AfterPage_retries(similar_products, from_offset, size, page_products) ==
    [similar_products |-> similar_products \o page_products,
     from_offset |-> from_offset + Len(page_products),
     break |-> page_products # <<>> /\ ShortPage(page_products, size)]

\* the loop body after the page has arrived: the locals, and whether it breaks
AfterPage(similar_products, from_offset, size, page_products) ==
    IF page_products = <<>>
    THEN [similar_products |-> similar_products, from_offset |-> from_offset, break |-> TRUE]
    ELSE [similar_products |-> similar_products \o page_products,
          from_offset |-> from_offset + Len(page_products),
          break |-> ShortPage(page_products, size)]

\* mutant: the list is returned as accumulated
ReturnValue_unsliced(svc, similar_products) == similar_products

\* return similar_products[:self.max_similar_products_per_item]
ReturnValue(svc, similar_products) ==
    SubSeq(similar_products, 1, Min(Len(similar_products), svc.max_similar_products_per_item))

\* the whole call as a function of the answers the source gives to the
\* successive page requests (a request past the end of `responses` fails):
\* the list returned and the [from, size] of every request sent
RECURSIVE FetchLoop(_, _, _, _, _, _)
FetchLoop(svc, product_id, responses, similar_products, from_offset, requested) ==
    IF ~LoopContinues(svc, similar_products)
    THEN [result |-> ReturnValue(svc, similar_products), requested |-> requested]
    ELSE LET size == current_page_size(svc, similar_products)
             response == IF Len(requested) < Len(responses)
                         THEN responses[Len(requested) + 1]
                         ELSE Failure("transport_error")
             after == AfterPage(similar_products, from_offset, size,
                                fetch_similar_products_page(response, product_id))
             sent == Append(requested, [from |-> from_offset, size |-> size])
         IN IF after.break
            THEN [result |-> ReturnValue(svc, after.similar_products), requested |-> sent]
            ELSE FetchLoop(svc, product_id, responses, after.similar_products,
                           after.from_offset, sent)

find_similar_products_for_item(svc, product_id, responses) ==
    FetchLoop(svc, product_id, responses, <<>>, 0, <<>>)

\* ---- _analyze_vendor_overlaps
\* the keys of vendor_products in the order the dict received them: a vendor
\* takes its place when its first similar product is met
VendorOrder(all_similar_products) ==
    LET firsts == {i \in 1..Len(all_similar_products) :
                      \A j \in 1..(i - 1) :
                         all_similar_products[j].vendor_id
                            # all_similar_products[i].vendor_id}
    IN [k \in 1..Cardinality(firsts) |->
           all_similar_products[
              CHOOSE i \in firsts : Cardinality({j \in firsts : j <= i}) = k].vendor_id]

\* mutant: every vendor is given the whole corpus
VendorProducts_whole_corpus(all_similar_products, vendor_id) == all_similar_products

\* vendor_products[vendor_id]: the vendor's similar products in corpus order
VendorProducts(all_similar_products, vendor_id) ==
    SelectSeq(all_similar_products, LAMBDA p : p.vendor_id = vendor_id)

\* mutant: the set collects the ids of the similar products themselves
UserProductsCovered_similar_ids(products) == {products[i].id : i \in 1..Len(products)}

\* user_products_covered: the set of original_product_id over the vendor's products
UserProductsCovered(products) ==
    {products[i].original_product_id : i \in 1..Len(products)}

\* mutant: every similar product counts, not every selection
MatchedProductsCount_per_item(products) == Len(products)

\* matched_products_count = len(user_products_covered)
MatchedProductsCount(products) == Cardinality(UserProductsCovered(products))

\* mutant: the name of the vendor's last similar product is taken
VendorMatch_last_name(vendor_id, products) ==
    [vendor_id |-> vendor_id,
     vendor_name |-> products[Len(products)].vendor_name,
     matched_products_count |-> MatchedProductsCount(products),
     user_selected_products |-> UserProductsCovered(products),
     similar_products |-> products]

\* VendorMatch(...); list(user_products_covered) is kept as the set it lists
VendorMatch(vendor_id, products) ==
    [vendor_id |-> vendor_id,
     vendor_name |-> products[1].vendor_name,
     matched_products_count |-> MatchedProductsCount(products),
     user_selected_products |-> UserProductsCovered(products),
     similar_products |-> products]

analyze_vendor_overlaps(all_similar_products) ==
    LET order == VendorOrder(all_similar_products)
    IN [k \in 1..Len(order) |->
           VendorMatch(order[k], VendorProducts(all_similar_products, order[k]))]

\* ---- find_vendor_overlaps
\* str < str: code point by code point, a proper prefix comes first
StrLess(a, b) ==
    \E k \in 1..Len(b) :
        /\ \A i \in 1..(k - 1) : i <= Len(a) /\ a[i] = b[i]
        /\ k > Len(a) \/ (k <= Len(a) /\ a[k] < b[k])

\* mutant: the vendor name is left out of the sort key
SortKeyLe_count_only(v, w) == v.matched_products_count >= w.matched_products_count

\* key(v) <= key(w) for key = (-matched_products_count, vendor_name)
SortKeyLe(v, w) ==
    \/ v.matched_products_count > w.matched_products_count
    \/ /\ v.matched_products_count = w.matched_products_count
       /\ (v.vendor_name = w.vendor_name \/ StrLess(v.vendor_name, w.vendor_name))

\* stable insertion of x into a sorted list: after every element whose key is <= x's
InsertByKey(sorted, x) ==
    LET n == Cardinality({i \in 1..Len(sorted) : SortKeyLe(sorted[i], x)})
    IN SubSeq(sorted, 1, n) \o <<x>> \o SubSeq(sorted, n + 1, Len(sorted))

RECURSIVE SortByMatches(_)
SortByMatches(vendors) ==
    IF vendors = <<>> THEN <<>>
    ELSE InsertByKey(SortByMatches(SubSeq(vendors, 1, Len(vendors) - 1)),
                     vendors[Len(vendors)])

\* mutant: the filter keeps every vendor that _analyze_vendor_overlaps returns
HasMultipleMatches_any(vendor) == vendor.matched_products_count >= 1

\* if vendor.matched_products_count >= 2
HasMultipleMatches(vendor) == vendor.matched_products_count >= 2

\* the filter, then list.sort on the key
VendorsWithMultipleMatches(vendor_overlaps) ==
    SortByMatches(SelectSeq(vendor_overlaps, HasMultipleMatches))

\* mutant: vendors_found counts the similar products
SummaryEntry_per_item(selected_product, similar_products) ==
    [product_id |-> selected_product.product_id,
     similar_products_found |-> Len(similar_products),
     vendors_found |-> Len(similar_products)]

\* processing_summary[selected_product.product_id] = {...}: a dict keyed by
\* product_id, kept as the sequence of its entries in insertion order
SummaryEntry(selected_product, similar_products) ==
    [product_id |-> selected_product.product_id,
     similar_products_found |-> Len(similar_products),
     vendors_found |->
        Cardinality({similar_products[i].vendor_id : i \in 1..Len(similar_products)})]

SummarySet(processing_summary, entry) ==
    IF \E i \in 1..Len(processing_summary) :
          processing_summary[i].product_id = entry.product_id
    THEN [i \in 1..Len(processing_summary) |->
             IF processing_summary[i].product_id = entry.product_id
             THEN entry ELSE processing_summary[i]]
    ELSE Append(processing_summary, entry)

\* the report returned for an empty list
EmptyReport ==
    [total_selected_products |-> 0, total_similar_products_found |-> 0,
     vendors_with_multiple_matches |-> <<>>, processing_summary |-> <<>>]

\* "Analyze vendor overlaps" to the return statement: vendor_overlaps is the
\* local that holds what _analyze_vendor_overlaps returned
CartConfirmationResponse(selected, all_similar_products, processing_summary) ==
    CHOOSE response \in
        {[total_selected_products |-> Len(selected),
          total_similar_products_found |-> Len(all_similar_products),
          vendors_with_multiple_matches |-> VendorsWithMultipleMatches(vendor_overlaps),
          processing_summary |-> processing_summary] :
            vendor_overlaps \in {analyze_vendor_overlaps(all_similar_products)}} : TRUE

\* mutant: the corpus is assigned, not extended
Extend_assigns(all_similar_products, similar_products) == similar_products

\* all_similar_products.extend(similar_products)
Extend(all_similar_products, similar_products) == all_similar_products \o similar_products

\* all_similar_products after the loop, found[i] being what the fetch of the
\* i-th selection returned
RECURSIVE Flatten(_)
Flatten(found) ==
    IF found = <<>> THEN <<>>
    ELSE Extend(Flatten(SubSeq(found, 1, Len(found) - 1)), found[Len(found)])

\* processing_summary after the loop
RECURSIVE Summaries(_, _)
Summaries(selected, found) ==
    IF found = <<>> THEN <<>>
    ELSE LET n == Len(found)
         IN SummarySet(Summaries(selected, SubSeq(found, 1, n - 1)),
                       SummaryEntry(selected[n], found[n]))

\* find_vendor_overlaps as a function of its argument and of what its fetches return
find_vendor_overlaps(selected, found) ==
    IF selected = <<>>
    THEN EmptyReport
    ELSE CartConfirmationResponse(selected, Flatten(found),
                                  Summaries(selected, found))

NoFetch == [pc |-> "idle"]
NoRun == [pc |-> "idle"]
NothingServed == [items |-> {}, failed |-> {}, requests |-> 0]

IdleAggregation ==
    /\ fetch = NoFetch
    /\ log = <<>>
    /\ aggregation = NoRun
    /\ served = NothingServed

\* ------------------------------------------------------------ Spec: one action per method
Threads == {1, 2}
NoCall == [op |-> "none"]
NoFrame == [op |-> "none"]

\* ProductSelectionService.__init__
InitStore ==
    /\ selected_products = <<>>
    /\ search_sessions = EmptyDict
    /\ next_id = 1
    /\ issued = <<>>

IdleThreads ==
    /\ lock = 0
    /\ pc = [t \in Threads |-> "idle"]
    /\ frame = [t \in Threads |-> NoFrame]

Init ==
    /\ InitStore
    /\ call = NoCall
    /\ result = NoCall
    /\ IdleThreads
    /\ service = DefaultService
    /\ IdleAggregation

\* a method is called when no call is in flight: it runs its body on the store
\* and leaves its return value in `result`
Apply(op, arg, out) ==
    /\ call = NoCall
    /\ selected_products' = out.products
    /\ search_sessions' = out.sessions
    /\ next_id' = out.next_id
    /\ issued' = IF out.next_id # next_id THEN Append(issued, out.value.id) ELSE issued
    /\ call' = [op |-> op, arg |-> arg]
    /\ result' = [op |-> op, value |-> out.value, old_product |-> out.old_product,
                  status |-> ResponseStatus(op, out.value)]
    /\ UNCHANGED <<threadvars, aggvars>>

\* the endpoint hands the return value to its client
Return ==
    /\ call # NoCall
    /\ call' = NoCall
    /\ result' = NoCall
    /\ UNCHANGED <<store, threadvars, aggvars>>

\* `now` is what datetime.now() returns if the call gets to read it: the wall
\* clock has a finite resolution and may be set back, so any reading may follow
\* any other
select_product(request, now) ==
    LET out == SelectProductBody(selected_products, search_sessions, next_id, request, now)
    IN /\ out.next_id <= MaxSelects + 1
       /\ Apply("select_product", request, out)

get_selected_products ==
    Apply("get_selected_products", 0, ReadOnly(GetSelectedProductsBody(selected_products)))

remove_product(product_id) ==
    Apply("remove_product", product_id,
          RemoveProductBody(selected_products, search_sessions, next_id, product_id))

clear_selections ==
    Apply("clear_selections", 0,
          ClearSelectionsBody(selected_products, search_sessions, next_id))

get_product_by_id(product_id) ==
    Apply("get_product_by_id", product_id,
          ReadOnly(find_by_product_id(selected_products, product_id)))

get_selections_by_vendor(vendor_id) ==
    Apply("get_selections_by_vendor", vendor_id,
          ReadOnly(GetSelectionsByVendorBody(selected_products, vendor_id)))

Next ==
    \/ \E request \in SelectProductRequest, now \in Times : select_product(request, now)
    \/ get_selected_products
    \/ \E product_id \in ProductIds : remove_product(product_id)
    \/ clear_selections
    \/ \E product_id \in ProductIds : get_product_by_id(product_id)
    \/ \E vendor_id \in VendorIds : get_selections_by_vendor(vendor_id)
    \/ Return

Spec == Init /\ [][Next]_vars

\* ------------------------------------------------------------ SpecThreads: the bodies under the lock
\* Each thread calls a method, blocks until the lock is free, runs the
\* method's body one statement at a time and releases the lock on return.
\* frame[t] holds the call (op, arg), the locals, and `entry`: the store as
\* the thread found it when it got the lock.
Methods ==
    {"select_product", "get_selected_products", "remove_product",
     "clear_selections", "get_product_by_id"}

Args(op) ==
    CASE op = "select_product" -> SelectProductRequest
      [] op \in {"remove_product", "get_product_by_id"} -> ProductIds
      [] OTHER -> {0}

Snapshot == [products |-> selected_products, sessions |-> search_sessions, next_id |-> next_id]

\* mutant: the body is entered without waiting for the lock
LockFree_unchecked == TRUE

\* threading.Lock: `with self._lock` blocks while another thread holds it
LockFree == lock = 0

Goto(t, label) == pc' = [pc EXCEPT ![t] = label]

SetFrame(t, f) == frame' = [frame EXCEPT ![t] = f]

\* the caller enters a method of the service
T_Call(t, op) ==
    /\ pc[t] = "idle"
    /\ Goto(t, "acquire")
    /\ SetFrame(t, [op |-> op])
    /\ UNCHANGED <<store, lock, call, result, aggvars>>

\* `with self._lock:` entered; the argument is read under the lock
T_Acquire(t, arg) ==
    /\ pc[t] = "acquire"
    /\ LockFree
    /\ frame[t].op = "select_product" =>
          SelectProductBody(selected_products, search_sessions, next_id, arg, 0).next_id
              <= MaxSelects + 1
    /\ lock' = t
    /\ Goto(t, frame[t].op)
    /\ SetFrame(t, [op |-> frame[t].op, arg |-> arg, entry |-> Snapshot, now |-> 0,
                    selection_id |-> 0, old_product |-> NoneProduct,
                    selected_product |-> NoneProduct, value |-> 0])
    /\ UNCHANGED <<store, call, result, aggvars>>

\* select_product, lines 40-43
T_SelectFind(t) ==
    /\ pc[t] = "select_product"
    /\ LET existing == find_by_product_id(selected_products, frame[t].arg.product_id)
       IN IF existing # NoneProduct
          THEN Goto(t, "release") /\ SetFrame(t, [frame[t] EXCEPT !.value = existing])
          ELSE Goto(t, "select_replace") /\ UNCHANGED frame
    /\ UNCHANGED <<store, lock, call, result, aggvars>>

\* select_product, lines 46-53
T_SelectReplace(t) ==
    /\ pc[t] = "select_replace"
    /\ selected_products' = RemovePrevious(selected_products, search_sessions, frame[t].arg)
    /\ SetFrame(t, [frame[t] EXCEPT
                       !.old_product = OldProduct(selected_products, search_sessions, frame[t].arg)])
    /\ Goto(t, "select_create")
    /\ UNCHANGED <<search_sessions, next_id, issued, lock, call, result, aggvars>>

\* the racing calls fall within one tick of the clock
ThreadTimes == {0}

\* select_product, lines 56-68
T_SelectCreate(t, now) ==
    /\ pc[t] = "select_create"
    /\ LET selected_product == NewSelectedProduct(next_id, frame[t].arg, now)
       IN /\ selected_products' = DictSet(selected_products, selected_product)
          /\ issued' = Append(issued, selected_product.id)
          /\ SetFrame(t, [frame[t] EXCEPT !.selected_product = selected_product, !.now = now])
    /\ Goto(t, "select_track")
    /\ UNCHANGED <<search_sessions, next_id, lock, call, result, aggvars>>

\* select_product, lines 71-72
T_SelectTrack(t) ==
    /\ pc[t] = "select_track"
    /\ search_sessions' = TrackSession(search_sessions, frame[t].arg, frame[t].selected_product.id)
    /\ Goto(t, "select_incr")
    /\ UNCHANGED <<selected_products, next_id, issued, lock, frame, call, result, aggvars>>

\* select_product, lines 74-77
T_SelectIncr(t) ==
    /\ pc[t] = "select_incr"
    /\ next_id' = next_id + 1
    /\ SetFrame(t, [frame[t] EXCEPT !.value = frame[t].selected_product])
    /\ Goto(t, "release")
    /\ UNCHANGED <<selected_products, search_sessions, issued, lock, call, result, aggvars>>

\* get_selected_products, lines 87-94
T_GetSelectedProducts(t) ==
    /\ pc[t] = "get_selected_products"
    /\ SetFrame(t, [frame[t] EXCEPT !.value = GetSelectedProductsBody(selected_products)])
    /\ Goto(t, "release")
    /\ UNCHANGED <<store, lock, call, result, aggvars>>

\* remove_product, lines 108-112
T_RemoveScan(t) ==
    /\ pc[t] = "remove_product"
    /\ SetFrame(t, [frame[t] EXCEPT
                       !.selection_id = FindSelectionId(selected_products, frame[t].arg)])
    /\ Goto(t, "remove_delete")
    /\ UNCHANGED <<store, lock, call, result, aggvars>>

\* remove_product, lines 114-120
T_RemoveDelete(t) ==
    /\ pc[t] = "remove_delete"
    /\ IF frame[t].selection_id # 0
       THEN /\ selected_products' = DictDel(selected_products, frame[t].selection_id)
            /\ SetFrame(t, [frame[t] EXCEPT !.value = TRUE])
       ELSE /\ UNCHANGED selected_products
            /\ SetFrame(t, [frame[t] EXCEPT !.value = FALSE])
    /\ Goto(t, "release")
    /\ UNCHANGED <<search_sessions, next_id, issued, lock, call, result, aggvars>>

\* clear_selections, lines 130-131
T_ClearProducts(t) ==
    /\ pc[t] = "clear_selections"
    /\ SetFrame(t, [frame[t] EXCEPT !.value = Len(selected_products)])
    /\ selected_products' = <<>>
    /\ Goto(t, "clear_sessions")
    /\ UNCHANGED <<search_sessions, next_id, issued, lock, call, result, aggvars>>

\* clear_selections, lines 132-134
T_ClearSessions(t) ==
    /\ pc[t] = "clear_sessions"
    /\ search_sessions' = EmptyDict
    /\ Goto(t, "release")
    /\ UNCHANGED <<selected_products, next_id, issued, lock, frame, call, result, aggvars>>

\* get_product_by_id, line 147
T_GetProductById(t) ==
    /\ pc[t] = "get_product_by_id"
    /\ SetFrame(t, [frame[t] EXCEPT !.value = find_by_product_id(selected_products, frame[t].arg)])
    /\ Goto(t, "release")
    /\ UNCHANGED <<store, lock, call, result, aggvars>>

\* the `with` block is left: the lock is released and the method returns
T_Release(t) ==
    /\ pc[t] = "release"
    /\ lock' = 0
    /\ Goto(t, "idle")
    /\ SetFrame(t, NoFrame)
    /\ UNCHANGED <<store, call, result, aggvars>>

NextThreads ==
    \E t \in Threads :
        \/ \E op \in Methods : T_Call(t, op)
        \/ \E arg \in Args(frame[t].op) : T_Acquire(t, arg)
        \/ T_SelectFind(t)
        \/ T_SelectReplace(t)
        \/ \E now \in ThreadTimes : T_SelectCreate(t, now)
        \/ T_SelectTrack(t)
        \/ T_SelectIncr(t)
        \/ T_GetSelectedProducts(t)
        \/ T_RemoveScan(t)
        \/ T_RemoveDelete(t)
        \/ T_ClearProducts(t)
        \/ T_ClearSessions(t)
        \/ T_GetProductById(t)
        \/ T_Release(t)

SpecThreads == Init /\ [][NextThreads]_vars

\* ------------------------------------------------------------ properties of the store
HasProduct(products, product_id) ==
    \E i \in 1..Len(products) : products[i].product_id = product_id

WithProduct(products, product_id) ==
    products[CHOOSE i \in 1..Len(products) : products[i].product_id = product_id]

Position(products, p) == CHOOSE i \in 1..Len(products) : products[i] = p

Selecting == call = NoCall /\ call'.op = "select_product"

\* C1: no two active selections have the same product_id.
C1_UniqueProductId ==
    \A i, j \in 1..Len(selected_products) :
        i # j => selected_products[i].product_id # selected_products[j].product_id

\* a select for a product that is already selected has returned, with another
\* selection next to it
C1_Witness ==
    /\ call.op = "select_product"
    /\ result.value.id # next_id - 1
    /\ result.value.product_id = call.arg.product_id
    /\ Len(selected_products) >= 2

\* C2: no two active selections carry the same non-empty search_session_id.
C2_UniqueSession ==
    \A i, j \in 1..Len(selected_products) :
        (i # j /\ Truthy(selected_products[i].search_session_id))
            => selected_products[i].search_session_id # selected_products[j].search_session_id

\* a select has replaced the previous selection of its session, next to a
\* selection made without a session
C2_Witness ==
    /\ call.op = "select_product"
    /\ result.old_product # NoneProduct
    /\ result.value.search_session_id = result.old_product.search_session_id
    /\ \E i \in 1..Len(selected_products) :
          ~Truthy(selected_products[i].search_session_id)

\* C3: a select for a product that is already selected returns that selection
\* as it is and changes nothing in the store, whatever the request carries.
C3_SelectIdempotent ==
    [][(Selecting /\ HasProduct(selected_products, call'.arg.product_id))
         => /\ result'.value = WithProduct(selected_products, call'.arg.product_id)
            /\ selected_products' = selected_products
            /\ search_sessions' = search_sessions
            /\ next_id' = next_id]_vars

\* a repeated select has returned the old selection although it came with
\* another clock reading and with a session that a different selection owns
C3_Witness ==
    /\ call.op = "select_product"
    /\ result.value.product_id = call.arg.product_id
    /\ result.value.search_session_id # call.arg.search_session_id
    /\ \E i \in 1..Len(selected_products) :
          /\ selected_products[i].search_session_id = call.arg.search_session_id
          /\ selected_products[i].product_id # call.arg.product_id
          /\ Truthy(call.arg.search_session_id)
          /\ SessionGet(search_sessions, call.arg.search_session_id) = selected_products[i].id

\* C4: a select of a new product under a session that an active selection
\* carries removes that selection, inserts the new one and keeps the count.
C4_SlotReplacement ==
    [][(/\ Selecting
        /\ Truthy(call'.arg.search_session_id)
        /\ ~HasProduct(selected_products, call'.arg.product_id)
        /\ \E i \in 1..Len(selected_products) :
              selected_products[i].search_session_id = call'.arg.search_session_id)
         => /\ \A i \in 1..Len(selected_products) :
                  selected_products[i].search_session_id = call'.arg.search_session_id
                      => ~HasProduct(selected_products', selected_products[i].product_id)
            /\ HasProduct(selected_products', call'.arg.product_id)
            /\ Len(selected_products') = Len(selected_products)]_vars

\* a replacement has happened next to a selection it leaves alone
C4_Witness ==
    /\ call.op = "select_product"
    /\ result.old_product # NoneProduct
    /\ result.old_product.search_session_id = call.arg.search_session_id
    /\ result.value.id = next_id - 1
    /\ Len(selected_products) >= 2

\* C5: get_selected_products returns every active selection once, with
\* selected_at never increasing along the list, and total_count is their number.
C5_ListSorted ==
    call.op = "get_selected_products" =>
        LET listed == result.value.products
        IN /\ Len(listed) = Len(selected_products)
           /\ \A i \in 1..Len(selected_products) :
                 Cardinality({j \in 1..Len(listed) : listed[j] = selected_products[i]}) = 1
           /\ \A j \in 1..Len(listed) - 1 : listed[j].selected_at >= listed[j + 1].selected_at
           /\ result.value.total_count = Len(selected_products)

\* a list whose order is not the dict's order has been returned
C5_Witness ==
    /\ call.op = "get_selected_products"
    /\ Len(selected_products) >= 2
    /\ result.value.products # selected_products
    /\ \E j \in 1..Len(selected_products) - 1 :
          result.value.products[j].selected_at > result.value.products[j + 1].selected_at

\* C6: in the lists of get_selected_products and get_selections_by_vendor, of
\* two selections with equal selected_at the one inserted later comes first.
C6_TiesLaterFirst ==
    call.op \in {"get_selected_products", "get_selections_by_vendor"} =>
        LET listed == IF call.op = "get_selected_products"
                      THEN result.value.products ELSE result.value
        IN \A i, j \in 1..Len(listed) :
              (i < j /\ listed[i].selected_at = listed[j].selected_at)
                  => Position(selected_products, listed[i]) > Position(selected_products, listed[j])

\* C7: remove_product of a product that is not selected returns False and
\* changes nothing (the endpoint answers 404); of a selected one it returns
\* True and removes that selection alone.
C7_RemoveExact ==
    [][(call = NoCall /\ call'.op = "remove_product")
         => IF HasProduct(selected_products, call'.arg)
            THEN /\ result'.value = TRUE
                 /\ result'.status # 404
                 /\ selected_products' =
                        SelectSeq(selected_products, LAMBDA p : p.product_id # call'.arg)
                 /\ Len(selected_products') = Len(selected_products) - 1
                 /\ search_sessions' = search_sessions
                 /\ next_id' = next_id
            ELSE /\ result'.value = FALSE
                 /\ result'.status = 404
                 /\ selected_products' = selected_products
                 /\ search_sessions' = search_sessions
                 /\ next_id' = next_id]_vars

\* a removal has returned True and left another selection in place
C7_Witness ==
    /\ call.op = "remove_product"
    /\ result.value = TRUE
    /\ Len(selected_products) >= 1
    /\ ~HasProduct(selected_products, call.arg)

\* C8: clear_selections returns the number of selections there were, leaves
\* no selection and no session mapping, so that the next select removes nothing.
C8_ClearAll ==
    [][(call = NoCall /\ call'.op = "clear_selections")
         => /\ result'.value = Len(selected_products)
            /\ GetSelectedProductsBody(selected_products').products = <<>>
            /\ search_sessions' = EmptyDict
            /\ \A request \in SelectProductRequest :
                  OldProduct(selected_products', search_sessions', request) = NoneProduct]_vars

\* a clear has removed two selections or more
C8_Witness ==
    /\ call.op = "clear_selections"
    /\ result.value >= 2
    /\ selected_products = <<>>

\* ------------------------------------------------------------ properties of the threads
InMethod(t) == pc[t] \notin {"idle", "acquire"}

\* what the method of thread t, run alone on the store the thread found when
\* it got the lock, leaves and returns
Alone(t) ==
    LET f == frame[t]
        e == f.entry
    IN CASE f.op = "select_product" ->
              SelectProductBody(e.products, e.sessions, e.next_id, f.arg, f.now)
         [] f.op = "remove_product" ->
              RemoveProductBody(e.products, e.sessions, e.next_id, f.arg)
         [] f.op = "clear_selections" ->
              ClearSelectionsBody(e.products, e.sessions, e.next_id)
         [] f.op = "get_selected_products" ->
              Outcome(e.products, e.sessions, e.next_id,
                      GetSelectedProductsBody(e.products), NoneProduct)
         [] f.op = "get_product_by_id" ->
              Outcome(e.products, e.sessions, e.next_id,
                      find_by_product_id(e.products, f.arg), NoneProduct)

\* thread u has removed the previous selection of a session and has not yet
\* inserted the new one
HalfReplaced(u) == pc[u] = "select_create" /\ frame[u].old_product # NoneProduct

\* C9: the methods are atomic with respect to each other. A thread inside a
\* method never sees another thread's replacement half done, nor two active
\* selections of one session, and when it returns the store and its return
\* value are what its method alone makes of the store it found.
C9_Atomic ==
    \A t \in Threads :
        /\ InMethod(t) =>
              /\ \A u \in Threads \ {t} : ~HalfReplaced(u)
              /\ pc[t] \in Methods => C2_UniqueSession
        /\ pc[t] = "release" =>
              /\ selected_products = Alone(t).products
              /\ search_sessions = Alone(t).sessions
              /\ next_id = Alone(t).next_id
              /\ frame[t].value = Alone(t).value

\* a replacement is half done while the other thread, which has called
\* get_selected_products, is kept waiting at the lock
C9_Witness ==
    \E t, u \in Threads :
        /\ t # u
        /\ HalfReplaced(u)
        /\ pc[t] = "acquire"
        /\ frame[t].op = "get_selected_products"
        /\ Len(selected_products) >= 1

\* C10: every new selection gets an id greater than every id given before,
\* so no id is given twice.
C10_IdsIncrease ==
    /\ \A i, j \in 1..Len(issued) : i < j => issued[i] < issued[j]
    /\ \A i \in 1..Len(selected_products) :
          \E j \in 1..Len(issued) : issued[j] = selected_products[i].id

\* one thread is about to create a selection, after another selection was
\* created, while the other thread waits at the lock with a select of its own
C10_Witness ==
    \E t, u \in Threads :
        /\ t # u
        /\ pc[u] = "select_track"
        /\ frame[u].selected_product.id >= 2
        /\ pc[t] = "acquire"
        /\ frame[t].op = "select_product"

\* ------------------------------------------------------------ SpecFetch: one fetch, page by page
\* _find_similar_products_for_item is called on a service, and suspends at
\* every page request until the source has answered.
storevars == <<store, call, result, threadvars>>

Pending == [kind |-> "pending", products |-> <<>>]

\* the history of page requests is kept for a fetch that is called directly
Logged == aggregation.pc = "idle"

InitFetch ==
    /\ InitStore
    /\ call = NoCall
    /\ result = NoCall
    /\ IdleThreads
    /\ service \in Services
    /\ IdleAggregation

\* similar_products = [], from_offset = 0; requests and empty_pages count the
\* page requests the call has sent and those that brought no item
StartFetch(product_id) ==
    /\ fetch' = [pc |-> "loop", product_id |-> product_id, similar_products |-> <<>>,
                 from_offset |-> 0, size |-> 0, result |-> <<>>,
                 requests |-> 0, empty_pages |-> 0]
    /\ log' = <<>>

F_Call(product_id) ==
    /\ fetch.pc \in {"idle", "done"}
    /\ StartFetch(product_id)
    /\ served' = NothingServed
    /\ UNCHANGED <<storevars, service, aggregation>>

\* the loop test holds: the page size is computed and the GET is sent
F_Request ==
    /\ fetch.pc = "loop"
    /\ LoopContinues(service, fetch.similar_products)
    /\ served.requests < MaxRequests
    /\ LET size == current_page_size(service, fetch.similar_products)
       IN /\ fetch' = [fetch EXCEPT !.pc = "await", !.size = size, !.requests = @ + 1]
          /\ log' = IF Logged
                    THEN Append(log, [from |-> fetch.from_offset, size |-> size,
                                      response |-> Pending])
                    ELSE log
    /\ served' = [served EXCEPT !.requests = @ + 1]
    /\ UNCHANGED <<storevars, service, aggregation>>

\* the GET is over: the page is parsed and the rest of the loop body runs
F_Response(response) ==
    /\ fetch.pc = "await"
    /\ LET page_products == fetch_similar_products_page(response, fetch.product_id)
           after == AfterPage(fetch.similar_products, fetch.from_offset, fetch.size,
                              page_products)
       IN /\ fetch' = [fetch EXCEPT !.pc = IF after.break THEN "break" ELSE "loop",
                                    !.similar_products = after.similar_products,
                                    !.from_offset = after.from_offset,
                                    !.empty_pages = IF page_products = <<>>
                                                    THEN @ + 1 ELSE @]
          /\ served' =
                [items |-> served.items \cup
                    {[product_id |-> fetch.product_id,
                      vendor_id |-> page_products[i].vendor_id,
                      fits |-> Len(response.products) <= fetch.size] :
                        i \in 1..Len(page_products)},
                 failed |-> IF response.kind \in FailureKinds
                            THEN served.failed \cup {fetch.product_id}
                            ELSE served.failed,
                 requests |-> served.requests]
    /\ log' = IF Logged THEN [log EXCEPT ![Len(log)].response = response] ELSE log
    /\ UNCHANGED <<storevars, service, aggregation>>

\* the loop is left, by its test or by a break: the slice is returned
F_Return ==
    /\ \/ fetch.pc = "break"
       \/ fetch.pc = "loop" /\ ~LoopContinues(service, fetch.similar_products)
    /\ fetch' = [fetch EXCEPT !.pc = "done",
                              !.result = ReturnValue(service, fetch.similar_products)]
    /\ UNCHANGED <<storevars, service, aggregation, served, log>>

NextFetch ==
    \/ \E product_id \in ProductIds : F_Call(product_id)
    \/ F_Request
    \/ /\ fetch.pc = "await"
       /\ \E response \in Responses(fetch.from_offset, fetch.size) : F_Response(response)
    \/ F_Return

SpecFetch == InitFetch /\ [][NextFetch]_vars

\* ------------------------------------------------------------ SpecConfirm: the store and an aggregation run
\* The endpoints of the store and the confirm endpoint share one event loop:
\* a handler runs until it returns or awaits, and the only await of a run is
\* the GET of a page.

\* similar_service = SimilarProductsService(): the endpoint creates its
\* service, whose cap and page size are those of __init__
ConfirmService == DefaultService

\* what the source answers in these runs: any failure, or a page that ends
\* on a record of another vendor and holds as many records as asked, or more
\* than the cap whatever was asked
ConfirmResponses(from, size) ==
    {Failure(kind) : kind \in FailureKinds}
        \cup {Ok(GenPage(from, n, "other")) :
                 n \in {size, max_similar_products_per_item + 1}}

\* the select requests of the callers: two search sessions, three products
ConfirmRequests ==
    {[product_id |-> 1, vendor_id |-> VendorOf(1), search_session_id |-> "s1"],
     [product_id |-> 2, vendor_id |-> VendorOf(2), search_session_id |-> "s2"],
     [product_id |-> 3, vendor_id |-> VendorOf(3), search_session_id |-> "s1"]}

InitConfirm ==
    /\ InitStore
    /\ call = NoCall
    /\ result = NoCall
    /\ IdleThreads
    /\ service = ConfirmService
    /\ IdleAggregation

\* another handler can run: no run is going on, or the run awaits a page
Suspended == aggregation.pc = "idle" \/ fetch.pc = "await"

\* a method of the store runs to its end and its endpoint answers
StoreCall(out) ==
    /\ Suspended
    /\ LockFree
    /\ selected_products' = out.products
    /\ search_sessions' = out.sessions
    /\ next_id' = out.next_id
    /\ issued' = IF out.next_id # next_id THEN Append(issued, out.value.id) ELSE issued
    /\ UNCHANGED <<call, result, threadvars, aggvars>>

E_select_product(request, now) ==
    LET out == SelectProductBody(selected_products, search_sessions, next_id, request, now)
    IN /\ out.next_id <= MaxSelects + 1
       /\ StoreCall(out)

\* the endpoint answers 404 when the product is not selected
E_remove_product(product_id) ==
    StoreCall(RemoveProductBody(selected_products, search_sessions, next_id, product_id))

\* both dicts are cleared, whatever they hold
E_clear_selections ==
    StoreCall(ClearSelectionsBody(selected_products, search_sessions, next_id))

\* the list endpoint: it reads the store under the lock and changes nothing
E_get_selected_products ==
    StoreCall(ReadOnly(GetSelectedProductsBody(selected_products)))

\* the event loop's thread, as a holder of the lock
EventLoop == 3

\* mutant: the lock taken for the snapshot is kept for the run
LockOnExit_held(holder) == holder

\* `with self._lock:` is left, by a return or by an exception: the lock is free
LockOnExit(holder) == 0

\* mutant: the endpoint does not check the snapshot
NoSelections_unchecked(products) == FALSE

\* if not selections.products: raise HTTPException(status_code=400, ...)
NoSelections(products) == products = <<>>

\* mutant: confirming the cart empties it
StoreAfterRun_cleared(products) == <<>>

\* the dict of selections after a run: neither the endpoint nor the service
\* writes to the store, and get_selected_products sorts a copy of the values
StoreAfterRun(products) == products

\* mutant: the run reads the store again each time it needs its selections
RunSelections_live(selected, products) == GetSelectedProductsBody(products).products

\* the list find_vendor_overlaps works on: its parameter, which is the list
\* that get_selected_products built from the dict's values when the endpoint
\* called it. The store keeps no reference to that list, and no method of the
\* store writes to a SelectedProduct it has created.
RunSelections(selected, products) == selected

\* mutant: the loop is left before the last selection
LoopDone_early(index, selected) == index >= Len(selected)

\* `for selected_product in selected_products` is exhausted: each iteration
\* awaits the fetch of its selection before the next one begins, and the
\* statements after the loop run when the last iteration is over
LoopDone(index, selected) == index > Len(selected)

\* the locals of find_vendor_overlaps at the head of its loop
Fetching(selected) ==
    [pc |-> "fetching", selected_products |-> selected, index |-> 1,
     all_similar_products |-> <<>>, processing_summary |-> <<>>, found |-> <<>>,
     vendor_overlaps |-> <<>>, report |-> EmptyReport, status |-> 0]

\* the run is over: the report, or the HTTPException of the endpoint
Finished(pc_, selected, found, report, status) ==
    [pc |-> pc_, selected_products |-> selected, index |-> Len(selected) + 1,
     all_similar_products |-> Flatten(found),
     processing_summary |-> report.processing_summary, found |-> found,
     vendor_overlaps |-> <<>>, report |-> report, status |-> status]

\* confirm_shopping_cart: the snapshot, the rejection of an empty one, and
\* the call of find_vendor_overlaps on a new service up to its first fetch
confirm_shopping_cart ==
    /\ aggregation.pc = "idle"
    /\ fetch.pc = "idle"
    /\ LockFree
    /\ lock' = LockOnExit(EventLoop)
    /\ LET selections == GetSelectedProductsBody(selected_products)
       IN aggregation' =
             IF NoSelections(selections.products)
             THEN Finished("rejected", <<>>, <<>>, EmptyReport, 400)
             ELSE Fetching(selections.products)
    /\ service' = IF NoSelections(GetSelectedProductsBody(selected_products).products)
                  THEN service ELSE ConfirmService
    /\ served' = NothingServed
    /\ UNCHANGED <<store, call, result, pc, frame, fetch, log>>

\* find_vendor_overlaps called with the store's list by another caller than
\* the endpoint, on the service that caller holds: an empty list is answered
\* at once
call_find_vendor_overlaps ==
    /\ aggregation.pc = "idle"
    /\ fetch.pc = "idle"
    /\ LockFree
    /\ lock' = LockOnExit(EventLoop)
    /\ LET selections == GetSelectedProductsBody(selected_products)
       IN aggregation' =
             IF selections.products = <<>>
             THEN Finished("returned", <<>>, <<>>, find_vendor_overlaps(<<>>, <<>>), 200)
             ELSE Fetching(selections.products)
    /\ served' = NothingServed
    /\ UNCHANGED <<store, call, result, pc, frame, service, fetch, log>>

\* for selected_product in selected_products: the fetch of the next one starts
R_Fetch ==
    /\ aggregation.pc = "fetching"
    /\ fetch.pc = "idle"
    /\ LET selected == RunSelections(aggregation.selected_products, selected_products)
       IN /\ ~LoopDone(aggregation.index, selected)
          /\ StartFetch(selected[aggregation.index].product_id)
    /\ UNCHANGED <<storevars, service, aggregation, served>>

\* the fetch has returned: extend the corpus, write the summary entry
R_Collect ==
    /\ aggregation.pc = "fetching"
    /\ fetch.pc = "done"
    /\ LET selected_product == aggregation.selected_products[aggregation.index]
           similar_products == fetch.result
       IN aggregation' =
             [aggregation EXCEPT
                !.all_similar_products = Extend(@, similar_products),
                !.processing_summary =
                    SummarySet(@, SummaryEntry(selected_product, similar_products)),
                !.found = Append(@, similar_products),
                !.index = @ + 1]
    /\ fetch' = NoFetch
    /\ log' = <<>>
    /\ UNCHANGED <<storevars, service, served>>

\* the loop is over: analysis, filter, sort and the report
R_Analyze ==
    /\ aggregation.pc = "fetching"
    /\ fetch.pc = "idle"
    /\ LET selected == RunSelections(aggregation.selected_products, selected_products)
       IN /\ LoopDone(aggregation.index, selected)
          /\ aggregation' =
                [aggregation EXCEPT
                   !.pc = "returned",
                   !.vendor_overlaps =
                       analyze_vendor_overlaps(aggregation.all_similar_products),
                   !.report = CartConfirmationResponse(selected,
                                                       aggregation.all_similar_products,
                                                       aggregation.processing_summary),
                   !.status = 200]
    /\ selected_products' = StoreAfterRun(selected_products)
    /\ UNCHANGED <<search_sessions, next_id, issued, call, result, threadvars>>
    /\ UNCHANGED <<service, fetch, log, served>>

\* the endpoint answers its client
R_Return ==
    /\ aggregation.pc \in {"returned", "rejected"}
    /\ aggregation' = NoRun
    /\ served' = NothingServed
    /\ UNCHANGED <<storevars, service, fetch, log>>

NextConfirm ==
    \/ \E request \in ConfirmRequests, now \in ThreadTimes : E_select_product(request, now)
    \/ \E product_id \in ProductIds : E_remove_product(product_id)
    \/ E_clear_selections
    \/ E_get_selected_products
    \/ confirm_shopping_cart
    \/ call_find_vendor_overlaps
    \/ R_Fetch
    \/ F_Request
    \/ /\ fetch.pc = "await"
       /\ \E response \in ConfirmResponses(fetch.from_offset, fetch.size) : F_Response(response)
    \/ F_Return
    \/ R_Collect
    \/ R_Analyze
    \/ R_Return

SpecConfirm == InitConfirm /\ [][NextConfirm]_vars

\* ------------------------------------------------------------ SpecRunFair: a run that is scheduled
\* A run is started on a store that holds n selections, by the confirm
\* endpoint or by a caller that holds a service of its own, and no other
\* handler is called while the run goes on. The event loop resumes a
\* coroutine that is ready, and every GET is over after self.timeout seconds
\* at most, with an answer or with an exception: the step the run is at is
\* eventually taken.

\* the largest number of selections in the store when the run starts
MaxRunSelections == 2

\* the store after select_product has been called for the products 1..n
RECURSIVE StoreAfterSelects(_)
StoreAfterSelects(n) ==
    IF n = 0
    THEN [products |-> <<>>, sessions |-> EmptyDict, next_id |-> 1]
    ELSE LET before == StoreAfterSelects(n - 1)
         IN SelectProductBody(before.products, before.sessions, before.next_id,
                              [product_id |-> n, vendor_id |-> VendorOf(n),
                               search_session_id |-> NoneSession], 0)

\* the services a caller of find_vendor_overlaps may hold: one as __init__
\* makes it, and one whose cap and page size were given small values
RunServices == {DefaultService, Override(3, 2)}

InitRun ==
    /\ \E n \in 0..MaxRunSelections :
          /\ selected_products = StoreAfterSelects(n).products
          /\ search_sessions = StoreAfterSelects(n).sessions
          /\ next_id = StoreAfterSelects(n).next_id
          /\ issued = [i \in 1..n |-> i]
    /\ call = NoCall
    /\ result = NoCall
    /\ IdleThreads
    /\ service \in RunServices
    /\ IdleAggregation

\* what the source answers in these runs: as above, or a page of one record
RunResponses(from, size) ==
    ConfirmResponses(from, size) \cup {Ok(GenPage(from, 1, "other"))}

\* the step the run is at
RunNext ==
    \/ R_Fetch
    \/ F_Request
    \/ /\ fetch.pc = "await"
       /\ \E response \in RunResponses(fetch.from_offset, fetch.size) : F_Response(response)
    \/ F_Return
    \/ R_Collect
    \/ R_Analyze

NextRun ==
    \/ confirm_shopping_cart
    \/ call_find_vendor_overlaps
    \/ RunNext
    \/ R_Return

SpecRunFair == InitRun /\ [][NextRun]_vars /\ WF_vars(RunNext)

\* ------------------------------------------------------------ SpecTimeout: a run under a timeout of its caller
\* The caller of the run bounds it in time (asyncio.wait_for, asyncio.timeout):
\* when the time is over the run is cancelled, that is asyncio.CancelledError
\* is raised at the await the run is suspended at, the GET of a page.

\* `except Exception` (lines 182 and 132 of the service, 251 of the endpoint)
\* catches the subclasses of Exception; CancelledError derives from BaseException
Exceptions == {"HTTPError", "TimeoutException", "ValueError"}

ExceptExceptionCatches(exception) == exception \in Exceptions

\* the timeout fires while a page request is in flight: no handler of the run
\* catches the cancellation, which leaves _fetch_similar_products_page,
\* _find_similar_products_for_item, find_vendor_overlaps and the endpoint
R_Timeout ==
    /\ aggregation.pc = "fetching"
    /\ fetch.pc = "await"
    /\ IF ExceptExceptionCatches("CancelledError")
       THEN /\ fetch' = [fetch EXCEPT !.pc = "break"]
            /\ aggregation' = aggregation
       ELSE /\ fetch' = NoFetch
            /\ aggregation' = [aggregation EXCEPT !.pc = "cancelled"]
    /\ log' = <<>>
    /\ UNCHANGED <<storevars, service, served>>

\* the caller goes on without a report
R_Abandon ==
    /\ aggregation.pc = "cancelled"
    /\ aggregation' = NoRun
    /\ served' = NothingServed
    /\ UNCHANGED <<storevars, service, fetch, log>>

NextTimeout ==
    \/ NextConfirm
    \/ R_Timeout
    \/ R_Abandon

SpecTimeout == InitConfirm /\ [][NextTimeout]_vars

\* ------------------------------------------------------------ properties of the fetch
\* the normalized items of one logged page
PageItems(entry) == fetch_similar_products_page(entry.response, fetch.product_id)

RECURSIVE Accumulated(_)
Accumulated(entries) ==
    IF entries = <<>> THEN <<>>
    ELSE Accumulated(SubSeq(entries, 1, Len(entries) - 1)) \o PageItems(entries[Len(entries)])

Answered(entry) == entry.response.kind # "pending"

\* the source answered with exactly the number of records asked for, all valid
ExactPage(entry) ==
    /\ entry.response.kind = "ok"
    /\ Len(entry.response.products) = entry.size
    /\ \A i \in 1..Len(entry.response.products) : Kept(entry.response.products[i])

\* C11: when every page of a fetch came back with exactly the requested number
\* of valid items, the fetch returns exactly cap items and has issued exactly
\* ceil(cap / page_size) page requests (5 for cap 100 and page size 24).
C11_ExactSource ==
    (fetch.pc = "done" /\ \A i \in 1..Len(log) : ExactPage(log[i]))
        => /\ Len(fetch.result) = service.max_similar_products_per_item
           /\ Len(log) = CeilDiv(service.max_similar_products_per_item, service.page_size)

C11_Witness ==
    /\ fetch.pc = "done"
    /\ service = DefaultService
    /\ \A i \in 1..Len(log) : ExactPage(log[i])
    /\ Len(log) = 5
    /\ Len(fetch.result) = 100

\* C12: a page with fewer normalized items than requested (zero included) is
\* the last page requested in its fetch, and the fetch returns everything
\* accumulated up to and including that page.
C12_StopsAtShortPage ==
    /\ \A i \in 1..Len(log) - 1 : Len(PageItems(log[i])) >= log[i].size
    /\ \A i \in 1..Len(log) :
          (Answered(log[i]) /\ Len(PageItems(log[i])) < log[i].size)
              => /\ fetch.pc \in {"break", "done"}
                 /\ fetch.pc = "done" => fetch.result = Accumulated(log)

C12_Witness ==
    /\ fetch.pc = "done"
    /\ Len(log) = 2
    /\ PageItems(log[2]) # <<>>
    /\ Len(PageItems(log[2])) < log[2].size
    /\ Len(fetch.result) = Len(PageItems(log[1])) + Len(PageItems(log[2]))

\* C13: when the k-th page request fails (status other than 200, transport
\* error, timeout, malformed body) the fetch issues no further request and
\* returns, as a normal return value, the normalized items of pages 1..k-1 in
\* order.
C13_FailureKeepsEarlierPages ==
    /\ \A i \in 1..Len(log) - 1 : log[i].response.kind \notin FailureKinds
    /\ \A k \in 1..Len(log) :
          log[k].response.kind \in FailureKinds
              => /\ fetch.pc \in {"break", "done"}
                 /\ fetch.pc = "done" => fetch.result = Accumulated(SubSeq(log, 1, k - 1))

C13_Witness ==
    /\ fetch.pc = "done"
    /\ Len(log) = 2
    /\ log[2].response.kind \in FailureKinds
    /\ fetch.result # <<>>
    /\ fetch.result = PageItems(log[1])

\* ------------------------------------------------------------ SpecAnalyze: a call of find_vendor_overlaps
\* find_vendor_overlaps is called with a list of selections on a service as
\* __init__ makes it. The call is suspended at the page request of each of
\* its selections in turn, with the corpus and the summary of the selections
\* before it; the event loop runs other handlers meanwhile. The statements
\* after the loop run without suspension.

\* the snapshots: n selections of distinct products (the store keeps
\* product_id unique), whose selection ids differ from their product ids
Snapshot3(n) ==
    [i \in 1..n |->
        [id |-> i, product_id |-> n + 1 - i, vendor_id |-> VendorOf(n + 1 - i),
         selected_at |-> 0, search_session_id |-> ""]]

\* the valid records of a page: three vendors with two names each, one of
\* which is the empty name that vendor.get("name", "") gives
AnalyzedProducts ==
    {RawProduct(1, vendor_id, vendor_name, TRUE) :
        vendor_id \in {71, 72}, vendor_name \in {<<97, 98>>, <<98>>}}
      \cup {RawProduct(1, 73, vendor_name, TRUE) : vendor_name \in {<<>>, <<98>>}}

\* what the source answers in these calls: a page of at most two valid
\* records, which is shorter than the page asked for and ends its fetch
AnalyzeResponses == {Ok(products) : products \in SeqsUpTo(AnalyzedProducts, 2)}

InitAnalyze ==
    /\ InitStore
    /\ call = NoCall
    /\ result = NoCall
    /\ IdleThreads
    /\ service = DefaultService
    /\ IdleAggregation

\* find_vendor_overlaps(selected_products) is called: an empty list is
\* answered at once, otherwise the locals are set and the loop is entered
A_Call(selected) ==
    /\ aggregation.pc = "idle"
    /\ fetch.pc = "idle"
    /\ aggregation' =
          IF selected = <<>>
          THEN Finished("returned", <<>>, <<>>, find_vendor_overlaps(<<>>, <<>>), 200)
          ELSE Fetching(selected)
    /\ served' = NothingServed
    /\ UNCHANGED <<storevars, service, fetch, log>>

NextAnalyze ==
    \/ \E n \in 0..3 : A_Call(Snapshot3(n))
    \/ R_Fetch
    \/ F_Request
    \/ /\ fetch.pc = "await"
       /\ \E response \in AnalyzeResponses : F_Response(response)
    \/ F_Return
    \/ R_Collect
    \/ R_Analyze
    \/ \E product_id \in ProductIds : E_remove_product(product_id)
    \/ E_clear_selections
    \/ E_get_selected_products

SpecAnalyze == InitAnalyze /\ [][NextAnalyze]_vars

\* ------------------------------------------------------------ properties of the analysis
\* the positions in the snapshot of the selections whose fetch returned a
\* similar product of the vendor
Covering(found, vendor_id) ==
    {i \in 1..Len(found) : \E j \in 1..Len(found[i]) : found[i][j].vendor_id = vendor_id}

Reported == aggregation.report.vendors_with_multiple_matches

\* C14: matched_products_count of every VendorMatch is the number of distinct
\* selections whose similar products include one of that vendor, whatever the
\* number of similar products each of them contributed for the vendor.
C14_CountsDistinctSelections ==
    aggregation.pc = "returned" =>
        \A k \in 1..Len(aggregation.vendor_overlaps) :
            aggregation.vendor_overlaps[k].matched_products_count =
                Cardinality(Covering(aggregation.found,
                                     aggregation.vendor_overlaps[k].vendor_id))

C14_Witness ==
    /\ aggregation.pc = "returned"
    /\ \E k \in 1..Len(aggregation.vendor_overlaps) :
          /\ aggregation.vendor_overlaps[k].matched_products_count = 2
          /\ Len(aggregation.vendor_overlaps[k].similar_products) = 4

\* C15: the report's vendor list holds exactly the vendors whose similar
\* products cover at least two distinct selections, each of them once.
C15_ExactlyOverlappingVendors ==
    aggregation.pc = "returned" =>
        \A vendor_id \in {71, 72, 73} :
            Cardinality({k \in 1..Len(Reported) : Reported[k].vendor_id = vendor_id}) =
                IF Cardinality(Covering(aggregation.found, vendor_id)) >= 2 THEN 1 ELSE 0

C15_Witness ==
    /\ aggregation.pc = "returned"
    /\ Len(aggregation.selected_products) = 3
    /\ Covering(aggregation.found, 71) = {1, 2}
    /\ Covering(aggregation.found, 72) = {3}
    /\ Covering(aggregation.found, 73) = {1, 2, 3}
    /\ Len(Reported) = 2
    /\ Reported[1].vendor_id = 73
    /\ Reported[2].vendor_id = 71

\* C16: of two consecutive entries of the report's vendor list the earlier has
\* the larger matched_products_count, or the same count and a vendor name that
\* is lexicographically less than or equal to the later one's.
C16_VendorOrder ==
    aggregation.pc = "returned" =>
        \A k \in 1..Len(Reported) - 1 :
            \/ Reported[k].matched_products_count > Reported[k + 1].matched_products_count
            \/ /\ Reported[k].matched_products_count = Reported[k + 1].matched_products_count
               /\ \/ Reported[k].vendor_name = Reported[k + 1].vendor_name
                  \/ StrLess(Reported[k].vendor_name, Reported[k + 1].vendor_name)

C16_Witness ==
    /\ aggregation.pc = "returned"
    /\ Len(aggregation.selected_products) = 3
    /\ Len(Reported) = 2
    /\ Reported[1].matched_products_count = 2
    /\ Reported[2].matched_products_count = 2
    /\ Reported[1].vendor_name = <<97, 98>>
    /\ Reported[2].vendor_name = <<98>>
    /\ aggregation.vendor_overlaps[1].vendor_id = Reported[2].vendor_id

\* ------------------------------------------------------------ properties of the run
Snapshotted == aggregation.selected_products

\* C17: with an empty snapshot no page request is sent: find_vendor_overlaps
\* returns the report with both totals 0, no vendor and no summary entry, and
\* the confirm endpoint rejects the request (status 400) before any fetch is
\* created.
C17_EmptySnapshot ==
    (aggregation.pc # "idle" /\ Snapshotted = <<>>)
        => /\ served.requests = 0
           /\ fetch = NoFetch
           /\ aggregation.pc \in {"returned", "rejected"}
           /\ aggregation.pc = "rejected" => aggregation.status = 400
           /\ aggregation.pc = "returned"
                 => aggregation.report =
                       [total_selected_products |-> 0,
                        total_similar_products_found |-> 0,
                        vendors_with_multiple_matches |-> <<>>,
                        processing_summary |-> <<>>]

C17_Witness ==
    /\ aggregation.pc = "rejected"
    /\ aggregation.status = 400
    /\ Snapshotted = <<>>
    /\ served.requests = 0
    /\ issued # <<>>

\* the source has returned, in this run, a valid record of the vendor for the
\* query of the product
Served(product_id, vendor_id) ==
    \E item \in served.items : item.product_id = product_id /\ item.vendor_id = vendor_id

\* the snapshot is one selection made under slot s1 and one made under slot s2
TwoSlots ==
    /\ Len(Snapshotted) = 2
    /\ {Snapshotted[1].search_session_id, Snapshotted[2].search_session_id} = {"s1", "s2"}

InReport(vendor_id, count) ==
    \E k \in 1..Len(Reported) :
        Reported[k].vendor_id = vendor_id /\ Reported[k].matched_products_count = count

\* C18 as stated: after select(A, s1) and select(B, s2), a confirm run in which
\* the source returns a valid similar item of one vendor for A's query and for
\* B's query reports that vendor with matched_products_count = 2.
C18_OverlapReported ==
    (aggregation.pc = "returned" /\ TwoSlots)
        => \A vendor_id \in VendorIds :
              (/\ Served(Snapshotted[1].product_id, vendor_id)
               /\ Served(Snapshotted[2].product_id, vendor_id))
                  => InReport(vendor_id, 2)

\* C18, amended: the same, for a run in which no page that brought items held
\* more records than were requested.
C18_OverlapReportedWithinSize ==
    (aggregation.pc = "returned" /\ TwoSlots /\ \A item \in served.items : item.fits)
        => \A vendor_id \in VendorIds :
              (/\ Served(Snapshotted[1].product_id, vendor_id)
               /\ Served(Snapshotted[2].product_id, vendor_id))
                  => InReport(vendor_id, 2)

C18_Witness ==
    /\ aggregation.pc = "returned"
    /\ TwoSlots
    /\ \A item \in served.items : item.fits
    /\ Served(Snapshotted[1].product_id, 71)
    /\ Served(Snapshotted[2].product_id, 71)
    /\ InReport(71, 2)

SummaryOf(product_id) ==
    {aggregation.report.processing_summary[k] :
        k \in {k \in 1..Len(aggregation.report.processing_summary) :
                  aggregation.report.processing_summary[k].product_id = product_id}}

\* C19: whatever the outcomes of the page requests of a run, the run returns a
\* report: total_selected_products is the number of selections of the snapshot,
\* the summary has one entry for every selection, with 0 items for a selection
\* whose fetch got nothing but a failure, and what the fetches of the
\* selections returned is, in order, the corpus that is analyzed.
C19_PartialFailure ==
    (aggregation.pc = "returned" /\ Snapshotted # <<>>)
        => /\ aggregation.status = 200
           /\ aggregation.report.total_selected_products = Len(Snapshotted)
           /\ Len(aggregation.report.processing_summary) = Len(Snapshotted)
           /\ Len(aggregation.found) = Len(Snapshotted)
           /\ \A i \in 1..Len(Snapshotted) :
                 /\ \E entry \in SummaryOf(Snapshotted[i].product_id) :
                       entry.similar_products_found = Len(aggregation.found[i])
                 /\ (/\ Snapshotted[i].product_id \in served.failed
                     /\ \A item \in served.items :
                           item.product_id # Snapshotted[i].product_id)
                       => \E entry \in SummaryOf(Snapshotted[i].product_id) :
                             entry.similar_products_found = 0
                 /\ {aggregation.found[i][j] : j \in 1..Len(aggregation.found[i])}
                       \subseteq {aggregation.all_similar_products[k] :
                                     k \in 1..Len(aggregation.all_similar_products)}
           /\ aggregation.all_similar_products = Flatten(aggregation.found)
           /\ aggregation.report.total_similar_products_found =
                 Len(aggregation.all_similar_products)

\* the only page request of the first selection failed, and the fetch of the
\* second one returned the 48 items of two full pages before its third page
\* request failed
C19_Witness ==
    /\ aggregation.pc = "returned"
    /\ Len(Snapshotted) = 2
    /\ served.failed = {Snapshotted[1].product_id, Snapshotted[2].product_id}
    /\ aggregation.found[1] = <<>>
    /\ Len(aggregation.found[2]) = 48
    /\ served.requests = 4
    /\ aggregation.report.total_similar_products_found = 48

\* a step of the run: of the endpoint, of find_vendor_overlaps or of a fetch
RunStep == aggregation' # aggregation \/ fetch' # fetch \/ served' # served

\* C20: no step of an aggregation run changes the store: the active
\* selections, the search session mapping and the next id are after the step
\* what they were before it.
C20_RunLeavesStore ==
    [][RunStep => UNCHANGED <<selected_products, search_sessions, next_id>>]_vars

C20_Witness ==
    /\ aggregation.pc = "returned"
    /\ Len(Snapshotted) = 2
    /\ Len(selected_products) = 2
    /\ aggregation.report.total_similar_products_found > 0
    /\ next_id = 3

\* the product ids of a list of selections, in its order
ProductIdsOf(selected) == [i \in 1..Len(selected) |-> selected[i].product_id]

\* C21: a run works on the snapshot taken when it started, whatever select,
\* remove or clear calls complete while it awaits a page: each fetch is that of
\* the snapshot's next selection, and the report's total_selected_products,
\* the keys of its summary and its vendor matches are those of the snapshot
\* and of what the fetches of its selections returned.
C21_RunOnSnapshot ==
    /\ (aggregation.pc = "fetching" /\ fetch.pc # "idle")
          => /\ aggregation.index <= Len(Snapshotted)
             /\ fetch.product_id = Snapshotted[aggregation.index].product_id
    /\ (aggregation.pc = "returned" /\ Snapshotted # <<>>)
          => /\ Len(aggregation.found) = Len(Snapshotted)
             /\ \A i \in 1..Len(aggregation.found) :
                   \A j \in 1..Len(aggregation.found[i]) :
                      aggregation.found[i][j].original_product_id
                         = Snapshotted[i].product_id
             /\ aggregation.report.total_selected_products = Len(Snapshotted)
             /\ ProductIdsOf(aggregation.report.processing_summary)
                   = ProductIdsOf(Snapshotted)
             /\ Reported =
                   VendorsWithMultipleMatches(
                      analyze_vendor_overlaps(Flatten(aggregation.found)))

\* a run over two selections has returned its report of two, and by then the
\* store holds one selection, of a product the run has not fetched
C21_Witness ==
    /\ aggregation.pc = "returned"
    /\ Len(Snapshotted) = 2
    /\ aggregation.report.total_selected_products = 2
    /\ Len(aggregation.report.processing_summary) = 2
    /\ Len(selected_products) = 1
    /\ \A i \in 1..2 : selected_products[1].product_id # Snapshotted[i].product_id
    /\ Len(Reported) = 1

\* C22: when the timeout of the whole run fires while a page request is in
\* flight, the fetch is abandoned and the run returns the report that the
\* analysis gives for the corpus collected so far.
C22_TimeoutStillReports ==
    [][R_Timeout =>
          /\ aggregation'.pc = "returned"
          /\ aggregation'.report =
                CartConfirmationResponse(Snapshotted, aggregation.all_similar_products,
                                         aggregation.processing_summary)]_vars

\* C23: a run over N selections does not stay in its fetching phase forever:
\* when every page request comes to an end (an answer, a failure, its own
\* timeout), the run gets to return its report.
C23_RunReturns == (aggregation.pc = "fetching") ~> (aggregation.pc = "returned")

\* a run of the endpoint over two selections has returned after seven page
\* requests: the second request of the first fetch failed, and the second
\* fetch reached the cap with its fifth
C23_Witness ==
    /\ aggregation.pc = "returned"
    /\ service = ConfirmService
    /\ Len(Snapshotted) = 2
    /\ served.requests = 7
    /\ served.failed = {Snapshotted[1].product_id}
    /\ Len(aggregation.found[1]) = 24
    /\ Len(aggregation.found[2]) = 100
    /\ aggregation.report.total_similar_products_found = 124

\* the analysis runs in this step
AnalysisStarts == aggregation.pc = "fetching" /\ aggregation'.pc = "returned"

\* C24: the analysis of a run starts when the fetch of every selection of the
\* snapshot has finished, and from then on no page request of the run is in
\* flight and no similar product is added to its corpus.
C24_AnalysisAfterFetches ==
    [][/\ AnalysisStarts
            => /\ fetch = NoFetch
               /\ Len(aggregation.found) = Len(Snapshotted)
               /\ aggregation.index = Len(Snapshotted) + 1
               /\ aggregation'.all_similar_products = Flatten(aggregation.found)
       /\ (AnalysisStarts \/ aggregation.pc = "returned")
            => /\ fetch' = NoFetch
               /\ served'.requests \in {served.requests, 0}
               /\ aggregation'.pc = "returned"
                     => aggregation'.all_similar_products
                           = aggregation.all_similar_products]_vars

\* the analysis has run on the 200 similar products that the fetches of two
\* selections returned, after ten page requests
C24_Witness ==
    /\ aggregation.pc = "returned"
    /\ Len(aggregation.found) = 2
    /\ Len(aggregation.found[1]) = 100
    /\ Len(aggregation.found[2]) = 100
    /\ served.requests = 10
    /\ fetch = NoFetch
    /\ Len(aggregation.all_similar_products) = 200

\* a page request of a run is in flight
InFlight == aggregation.pc = "fetching" /\ fetch.pc = "await"

\* C25: while a page request of a run is in flight the lock of the store is
\* free, and a select, a remove, a clear or a list called then gets the lock
\* and completes.
C25_LockFreeWhileAwaiting ==
    InFlight
        => /\ LockFree
           /\ ENABLED E_get_selected_products
           /\ ENABLED E_clear_selections
           /\ \A product_id \in ProductIds : ENABLED E_remove_product(product_id)
           /\ \A request \in ConfirmRequests, now \in ThreadTimes :
                 SelectProductBody(selected_products, search_sessions, next_id,
                                   request, now).next_id <= MaxSelects + 1
                    => ENABLED E_select_product(request, now)

\* a page request is in flight and the store no longer lists what the run
\* took as its snapshot: another caller's select has completed meanwhile
C25_Witness ==
    /\ InFlight
    /\ LockFree
    /\ Len(Snapshotted) = 1
    /\ Len(selected_products) = 2
    /\ next_id = 3

\* the selection ids, and the product ids, of the snapshot's selections at
\* the positions of a set
SelectionIdsAt(positions) == {Snapshotted[i].id : i \in positions}

ProductIdsAt(positions) == {Snapshotted[i].product_id : i \in positions}

\* C26 as stated: user_selected_products of every VendorMatch holds the
\* selection ids of exactly the selections whose fetch produced one of the
\* vendor's similar products; it has matched_products_count entries, each the
\* id of a selection of the snapshot, so that matched_products_count is at
\* most total_selected_products.
C26_MatchedSelectionIds ==
    aggregation.pc = "returned" =>
        \A k \in 1..Len(aggregation.vendor_overlaps) :
            LET vendor == aggregation.vendor_overlaps[k]
            IN /\ vendor.user_selected_products =
                     SelectionIdsAt(Covering(aggregation.found, vendor.vendor_id))
               /\ Cardinality(vendor.user_selected_products) = vendor.matched_products_count
               /\ vendor.user_selected_products \subseteq SelectionIdsAt(1..Len(Snapshotted))
               /\ vendor.matched_products_count
                     <= aggregation.report.total_selected_products

\* C26, amended: the same with the product_id of the selections in place of
\* their selection ids.
C26_MatchedProductIds ==
    aggregation.pc = "returned" =>
        \A k \in 1..Len(aggregation.vendor_overlaps) :
            LET vendor == aggregation.vendor_overlaps[k]
            IN /\ vendor.user_selected_products =
                     ProductIdsAt(Covering(aggregation.found, vendor.vendor_id))
               /\ Cardinality(vendor.user_selected_products) = vendor.matched_products_count
               /\ vendor.user_selected_products \subseteq ProductIdsAt(1..Len(Snapshotted))
               /\ vendor.matched_products_count
                     <= aggregation.report.total_selected_products

\* of three selections the first two, whose selection ids are 1 and 2 and
\* whose product ids are 3 and 2, are matched by a vendor
C26_Witness ==
    /\ aggregation.pc = "returned"
    /\ Len(Snapshotted) = 3
    /\ \E k \in 1..Len(Reported) :
          /\ Covering(aggregation.found, Reported[k].vendor_id) = {1, 2}
          /\ Reported[k].user_selected_products = {3, 2}
          /\ Reported[k].matched_products_count = 2
          /\ Len(Reported[k].similar_products) = 3

\* the number of items a fetch had accumulated when it sent its i-th request
AccumulatedBefore(i) == Len(Accumulated(SubSeq(log, 1, i - 1)))

\* C27: every page request of a fetch asks for min(page_size, cap -
\* accumulated) records at the offset `accumulated`, the number of items the
\* fetch has accumulated so far: the offsets are the running totals 0, n1,
\* n1 + n2, ... and no request asks for more than the room left under the cap.
C27_RequestShape ==
    \A i \in 1..Len(log) :
        /\ log[i].from = AccumulatedBefore(i)
        /\ log[i].size = Min(service.page_size,
                             service.max_similar_products_per_item - AccumulatedBefore(i))
        /\ log[i].size >= 1
        /\ log[i].size <= service.max_similar_products_per_item - AccumulatedBefore(i)

\* with cap 4 and page size 2 the first page brought three items, and the
\* second request asks for the one item that is missing, at offset 3
C27_Witness ==
    /\ service = Override(4, 2)
    /\ Len(log) = 2
    /\ log[1].from = 0
    /\ log[1].size = 2
    /\ Len(PageItems(log[1])) = 3
    /\ log[2].from = 3
    /\ log[2].size = 1

\* C28: the list a fetch returns never has more than cap items, whatever the
\* source answers, a page of more records than requested included.
C28_ResultWithinCap ==
    fetch.pc = "done" => Len(fetch.result) <= service.max_similar_products_per_item

\* the last page held more records than requested: the fetch had accumulated
\* 101 items and returns 100
C28_Witness ==
    /\ fetch.pc = "done"
    /\ service = DefaultService
    /\ Len(log) = 5
    /\ log[5].size = 4
    /\ Len(log[5].response.products) = 5
    /\ Len(fetch.similar_products) = 101
    /\ Len(fetch.result) = 100

\* the page requests one fetch may send on the service: ceil(cap / page_size)
RequestsPerFetch ==
    CeilDiv(service.max_similar_products_per_item, service.page_size)

\* C29: one fetch sends at most ceil(cap / page_size) page requests whatever
\* the source answers, at most one of them brings no item, and a run over N
\* selections sends at most N * ceil(cap / page_size) page requests.
C29_RequestBudget ==
    /\ fetch.pc # "idle" =>
          /\ fetch.requests <= RequestsPerFetch
          /\ fetch.empty_pages <= 1
    /\ aggregation.pc # "idle" =>
          served.requests <= Len(Snapshotted) * RequestsPerFetch

\* a caller's service of cap 3 and page size 2: both fetches of a run over two
\* selections have sent two requests each, and the second fetch ended on a
\* page without items
C29_Witness ==
    /\ service = Override(3, 2)
    /\ aggregation.pc = "fetching"
    /\ Len(Snapshotted) = 2
    /\ aggregation.index = 2
    /\ Len(aggregation.found[1]) = 3
    /\ fetch.pc = "done"
    /\ fetch.requests = 2
    /\ fetch.empty_pages = 1
    /\ Len(fetch.result) = 2
    /\ served.requests = 4

\* the record carries an item identifier and a vendor identifier
HasIdentifiers(record) == record.id # 0 /\ record.vendor_id # 0

\* the record has both identifiers and a SimilarProduct can be built from it
Convertible(record) == HasIdentifiers(record) /\ record.parses

\* The accumulated list of the fetch holds, for every page requested so far
\* and from the offset of that page on, one item for each of the page's
\* records at `positions`, in the order of the records, and nothing else.
PagesReturn(positions(_)) ==
    /\ \A i \in 1..Len(log) :
          LET records == log[i].response.products
              kept == positions(records)
          IN /\ \A p \in kept :
                   LET k == log[i].from + Cardinality({q \in kept : q <= p})
                   IN /\ k <= Len(fetch.similar_products)
                      /\ fetch.similar_products[k].id = records[p].id
                      /\ fetch.similar_products[k].vendor_id = records[p].vendor_id
                      /\ fetch.similar_products[k].vendor_name = records[p].vendor_name
             /\ log[i].from + Cardinality(kept) =
                   IF i < Len(log) THEN log[i + 1].from ELSE Len(fetch.similar_products)
    /\ log = <<>> => fetch.similar_products = <<>>

\* every item of the accumulated list and of the result has both identifiers
ItemsIdentified ==
    /\ \A k \in 1..Len(fetch.similar_products) : HasIdentifiers(fetch.similar_products[k])
    /\ \A k \in 1..Len(fetch.result) : HasIdentifiers(fetch.result[k])

WithIdentifiers(records) == {p \in 1..Len(records) : HasIdentifiers(records[p])}

ConvertiblePositions(records) == {p \in 1..Len(records) : Convertible(records[p])}

\* C30 as stated: normalization discards the records that lack an item
\* identifier or a vendor identifier, every other record of the page is
\* returned in the original order, and every item of a fetch has both
\* identifiers. A record that has both identifiers and whose price is not a
\* number is discarded as well.
C30_OthersReturned ==
    fetch.pc # "idle" => PagesReturn(WithIdentifiers) /\ ItemsIdentified

\* C30, amended: normalization discards the records that lack an item
\* identifier or a vendor identifier without failing the page; the other
\* records of the page from which a SimilarProduct can be built are returned
\* in their original order, and every item of a fetch has both identifiers.
C30_ConvertibleReturned ==
    fetch.pc # "idle" => PagesReturn(ConvertiblePositions) /\ ItemsIdentified

\* a page of three records whose first has no item identifier: the two others
\* are the accumulated list, in the order of the page
C30_Witness ==
    /\ fetch.pc = "loop"
    /\ Len(log) = 1
    /\ log[1].response =
          Ok(<<RawProduct(0, 71, <<97>>, TRUE), RawProduct(2, 72, <<98>>, TRUE),
               RawProduct(1, 71, <<97>>, TRUE)>>)
    /\ Len(fetch.similar_products) = 2
    /\ fetch.similar_products[1].id = 2
    /\ fetch.similar_products[2].id = 1

\* the i-th request of the fetch was answered with as many raw records as it
\* asked for, and normalization discarded at least one of them
FullPageWithDiscard(i) ==
    /\ log[i].response.kind = "ok"
    /\ Len(log[i].response.products) = log[i].size
    /\ \E p \in 1..Len(log[i].response.products) :
          ~Convertible(log[i].response.products[p])

\* C31: the stop test compares the number of normalized items with the
\* requested size: after a full raw page of which a record was discarded the
\* fetch leaves its loop and sends no further page request, although the cap
\* is not reached.
C31_DiscardStopsFetch ==
    \A i \in 1..Len(log) :
        FullPageWithDiscard(i) =>
            /\ i = Len(log)
            /\ fetch.pc \in {"break", "done"}
            /\ Len(fetch.similar_products) < service.max_similar_products_per_item

\* the default service asked for 24 records and got 24, the first without an
\* item identifier: the fetch is over with 23 items after one request
C31_Witness ==
    /\ service = DefaultService
    /\ fetch.pc = "done"
    /\ Len(log) = 1
    /\ log[1].size = 24
    /\ FullPageWithDiscard(1)
    /\ Len(fetch.result) = 23

\* the vendor name of the first similar product of the vendor, going through
\* the selections in snapshot order and through each selection's products in
\* the order its fetch returned them
FirstSeenName(found, vendor_id) ==
    LET i == SetMin(Covering(found, vendor_id))
        j == SetMin({p \in 1..Len(found[i]) : found[i][p].vendor_id = vendor_id})
    IN found[i][j].vendor_name

\* C32: the vendor_name of a VendorMatch is the vendor name of the first
\* similar product of that vendor in the corpus (selections in list order,
\* each selection's products in page order); a later product of the vendor
\* with another name, empty or not, does not replace it.
C32_FirstSeenName ==
    aggregation.pc = "returned" =>
        /\ \A k \in 1..Len(aggregation.vendor_overlaps) :
              aggregation.vendor_overlaps[k].vendor_name =
                 FirstSeenName(aggregation.found, aggregation.vendor_overlaps[k].vendor_id)
        /\ \A k \in 1..Len(Reported) :
              Reported[k].vendor_name =
                 FirstSeenName(aggregation.found, Reported[k].vendor_id)

\* vendor 73 is first met without a name in the first selection's products,
\* and with the name "b" later on: the report lists it with the empty name
C32_Witness ==
    /\ aggregation.pc = "returned"
    /\ Len(aggregation.found) = 3
    /\ Len(aggregation.found[1]) = 2
    /\ aggregation.found[1][1].vendor_id = 71
    /\ aggregation.found[1][2].vendor_id = 73
    /\ aggregation.found[1][2].vendor_name = <<>>
    /\ aggregation.found[3] # <<>>
    /\ \A j \in 1..Len(aggregation.found[3]) :
          /\ aggregation.found[3][j].vendor_id = 73
          /\ aggregation.found[3][j].vendor_name = <<98>>
    /\ \E k \in 1..Len(Reported) :
          Reported[k].vendor_id = 73 /\ Reported[k].vendor_name = <<>>

\* the vendors of which the fetch of the i-th selection returned a product
VendorsOf(found, i) == {vendor_id \in {71, 72, 73} : i \in Covering(found, vendor_id)}

\* the entries of the report's summary written for the i-th selection
SummaryFor(i) ==
    {k \in 1..Len(aggregation.report.processing_summary) :
        aggregation.report.processing_summary[k].product_id =
           aggregation.selected_products[i].product_id}

\* C33: every selection of the run has one summary entry, which records the
\* number of similar products its own fetch returned and the number of
\* distinct vendors among them, vendors that cover this selection only and are
\* not in the report's vendor list included.
C33_SummaryPerSelection ==
    aggregation.pc = "returned" =>
        \A i \in 1..Len(aggregation.selected_products) :
            /\ Cardinality(SummaryFor(i)) = 1
            /\ \A k \in SummaryFor(i) :
                  LET entry == aggregation.report.processing_summary[k]
                  IN /\ entry.similar_products_found = Len(aggregation.found[i])
                     /\ entry.vendors_found = Cardinality(VendorsOf(aggregation.found, i))

\* the second selection's fetch returned two products of vendor 72, which no
\* other selection met: the report lists no vendor, the entry counts 2 and 1
C33_Witness ==
    /\ aggregation.pc = "returned"
    /\ Len(aggregation.selected_products) = 3
    /\ Len(aggregation.found[2]) = 2
    /\ VendorsOf(aggregation.found, 2) = {72}
    /\ Covering(aggregation.found, 72) = {2}
    /\ Reported = <<>>
    /\ \A k \in SummaryFor(2) :
          /\ aggregation.report.processing_summary[k].similar_products_found = 2
          /\ aggregation.report.processing_summary[k].vendors_found = 1

\* the slot s is mapped to a selection that is no longer active
StaleSlot(products, sessions, s) ==
    /\ Truthy(s)
    /\ SessionGet(sessions, s) # 0
    /\ ~HasId(products, SessionGet(sessions, s))

\* thread t has run select_product to its end, for a product that was not
\* selected and under a slot whose mapping was stale when it got the lock
SelectedOnStaleSlot(t) ==
    /\ pc[t] = "release"
    /\ frame[t].op = "select_product"
    /\ ~HasProduct(frame[t].entry.products, frame[t].arg.product_id)
    /\ StaleSlot(frame[t].entry.products, frame[t].entry.sessions,
                 frame[t].arg.search_session_id)

\* C34: remove_product leaves the slot mappings as they are, and the stale
\* mapping it leaves is harmless: a select of a new product under that slot
\* inserts the new selection, removes no selection (the count grows by one)
\* and maps the slot to the new selection.
C34_StaleSlotHarmless ==
    \A t \in Threads :
        /\ pc[t] = "release" /\ frame[t].op = "remove_product" =>
              search_sessions = frame[t].entry.sessions
        /\ SelectedOnStaleSlot(t) =>
              LET before == frame[t].entry.products
                  request == frame[t].arg
              IN /\ Len(selected_products) = Len(before) + 1
                 /\ \A i \in 1..Len(before) :
                       \E j \in 1..Len(selected_products) : selected_products[j] = before[i]
                 /\ HasProduct(selected_products, request.product_id)
                 /\ WithProduct(selected_products, request.product_id).search_session_id =
                       request.search_session_id
                 /\ SessionGet(search_sessions, request.search_session_id) =
                       WithProduct(selected_products, request.product_id).id
                 /\ frame[t].old_product = NoneProduct

\* a select under a slot whose selection had been removed has run next to a
\* selection it found and left in place
C34_Witness ==
    \E t \in Threads :
        /\ SelectedOnStaleSlot(t)
        /\ Len(frame[t].entry.products) = 1
        /\ Len(selected_products) = 2
        /\ selected_products[1] = frame[t].entry.products[1]
        /\ selected_products[2].search_session_id = "s1"

\* no id was given twice, and the counter is past every id given and every
\* id a slot is mapped to: a selection created later gets another id
IdsNeverReused ==
    /\ \A i, j \in 1..Len(issued) : i # j => issued[i] # issued[j]
    /\ \A i \in 1..Len(issued) : issued[i] < next_id
    /\ \A i \in 1..Len(selected_products) : selected_products[i].id < next_id
    /\ \A s \in DOMAIN search_sessions :
          /\ search_sessions[s] < next_id
          /\ HasId(selected_products, search_sessions[s]) =>
                ById(selected_products, search_sessions[s]).search_session_id = s

\* a select removes no selection but one that carries the slot of the request
RemovesOnlySlotOwner ==
    Selecting =>
        \A i \in 1..Len(selected_products) :
            ~HasId(selected_products', selected_products[i].id) =>
                /\ Truthy(call'.arg.search_session_id)
                /\ selected_products[i].search_session_id = call'.arg.search_session_id

\* clear_selections leaves the counter where it is
ClearKeepsCounter ==
    (call = NoCall /\ call'.op = "clear_selections") => next_id' = next_id

\* C36: a selection id is never reused, not even after clear_selections,
\* which does not reset the counter; so a slot mapping that points to a removed
\* selection never designates a selection created later, and a slot
\* replacement never removes a selection that does not carry the slot.
C36_IdsNeverReused ==
    /\ []IdsNeverReused
    /\ [][RemovesOnlySlotOwner /\ ClearKeepsCounter]_vars

\* clear_selections has removed the two selections made so far, and the
\* counter still stands at 3
C36_Witness ==
    /\ result # NoCall
    /\ result.op = "clear_selections"
    /\ result.value = 2
    /\ selected_products = <<>>
    /\ issued = <<1, 2>>
    /\ next_id = 3

\* C37: every active selection that carries a non-empty slot key is the
\* selection the slot mapping designates for that key; a mapping may point to
\* a selection that is gone, never to an active selection of another key.
C37_SlotDesignatesOwner ==
    /\ \A i \in 1..Len(selected_products) :
          Truthy(selected_products[i].search_session_id) =>
             SessionGet(search_sessions, selected_products[i].search_session_id) =
                selected_products[i].id
    /\ \A s \in DOMAIN search_sessions :
          \A i \in 1..Len(selected_products) :
             selected_products[i].id = search_sessions[s] =>
                selected_products[i].search_session_id = s

\* the slot s1 designates the selection that replaced its previous owner,
\* next to a selection that was made without a slot
C37_Witness ==
    /\ Len(selected_products) = 2
    /\ selected_products[1].search_session_id = ""
    /\ selected_products[2].search_session_id = "s1"
    /\ SessionGet(search_sessions, "s1") = selected_products[2].id
    /\ result # NoCall
    /\ result.op = "select_product"
    /\ result.old_product.search_session_id = "s1"
    /\ issued = <<1, 2, 3>>

\* the orders in which n fetches can be performed
FetchOrders(n) == {f \in [1..n -> 1..n] : \A i, j \in 1..n : i # j => f[i] # f[j]}

InOrder(list, f) == [i \in 1..Len(list) |-> list[f[i]]]

\* the report's vendor list, reduced to who is listed with which count
Listed(report) ==
    [k \in 1..Len(report.vendors_with_multiple_matches) |->
        <<report.vendors_with_multiple_matches[k].vendor_id,
          report.vendors_with_multiple_matches[k].matched_products_count>>]

\* the report of the run that takes the same selections, with the same
\* answers of the source, in the order f
ReportInOrder(f) ==
    find_vendor_overlaps(InOrder(aggregation.selected_products, f),
                         InOrder(aggregation.found, f))

\* no two listed vendors have the same count and the same name
NoTies(report) ==
    \A k, l \in 1..Len(report.vendors_with_multiple_matches) :
        k # l =>
           \/ report.vendors_with_multiple_matches[k].matched_products_count #
                 report.vendors_with_multiple_matches[l].matched_products_count
           \/ report.vendors_with_multiple_matches[k].vendor_name #
                 report.vendors_with_multiple_matches[l].vendor_name

\* all the similar products of one vendor carry one vendor name
OneNamePerVendor(found) ==
    \A i, j \in 1..Len(found) :
        \A p \in 1..Len(found[i]) : \A q \in 1..Len(found[j]) :
            found[i][p].vendor_id = found[j][q].vendor_id =>
               found[i][p].vendor_name = found[j][q].vendor_name

\* C35 as stated: for fixed selections and fixed answers of the source the
\* ordered vendor list does not depend on the order in which the fetches are
\* performed: the same vendors with the same counts in the same order. Two
\* vendors that tie on count and name are listed in the order the corpus
\* meets them, and a vendor's name is the first one met.
C35_OrderIndependent ==
    aggregation.pc = "returned" =>
        \A f \in FetchOrders(Len(aggregation.selected_products)) :
            Listed(ReportInOrder(f)) = Listed(aggregation.report)

\* C35, amended: for fixed selections and fixed answers of the source the
\* vendors listed and their counts do not depend on the order in which the
\* fetches are performed, and the order of the list does not either when every
\* vendor has one name in all its records and no two listed vendors tie on
\* count and name.
C35_OrderIndependentWithoutTies ==
    aggregation.pc = "returned" =>
        \A f \in FetchOrders(Len(aggregation.selected_products)) :
            /\ {Listed(ReportInOrder(f))[k] : k \in 1..Len(Listed(ReportInOrder(f)))} =
                  {Listed(aggregation.report)[k] : k \in 1..Len(Reported)}
            /\ Len(Listed(ReportInOrder(f))) = Len(Reported)
            /\ (OneNamePerVendor(aggregation.found) /\ NoTies(aggregation.report)) =>
                  Listed(ReportInOrder(f)) = Listed(aggregation.report)

\* two vendors are listed that do not tie, and the corpus meets them in the
\* other order when the fetches are performed last to first
C35_Witness ==
    /\ aggregation.pc = "returned"
    /\ Len(aggregation.selected_products) = 3
    /\ OneNamePerVendor(aggregation.found)
    /\ NoTies(aggregation.report)
    /\ Len(Reported) = 2
    /\ Reported[1].matched_products_count = 2
    /\ Reported[2].matched_products_count = 2
    /\ aggregation.vendor_overlaps[1].vendor_id = Reported[1].vendor_id
    /\ aggregation.found[3] # <<>>
    /\ aggregation.found[3][1].vendor_id = Reported[2].vendor_id

\* the sum of similar_products_found over the entries of a summary
RECURSIVE SumFound(_)
SumFound(processing_summary) ==
    IF processing_summary = <<>> THEN 0
    ELSE processing_summary[1].similar_products_found + SumFound(Tail(processing_summary))

\* the sum of the lengths of the vendors' lists of similar products
RECURSIVE SumListed(_)
SumListed(vendors) ==
    IF vendors = <<>> THEN 0
    ELSE Len(vendors[1].similar_products) + SumListed(Tail(vendors))

\* how many times the fetches of the run returned the similar product x
InCorpus(found, x) ==
    Cardinality({ij \in UNION {{i} \X (1..Len(found[i])) : i \in 1..Len(found)} :
                    found[ij[1]][ij[2]] = x})

\* how many times the vendors of the report list the similar product x
InVendorLists(vendors, x) ==
    Cardinality({kp \in UNION {{k} \X (1..Len(vendors[k].similar_products)) :
                                  k \in 1..Len(vendors)} :
                    vendors[kp[1]].similar_products[kp[2]] = x})

\* C38: in every report total_similar_products_found is the sum of
\* similar_products_found over the summary entries, the summary has
\* total_selected_products entries, and every similar product listed under a
\* vendor is listed as often as the corpus holds it and under that vendor
\* only: the vendors' lists are disjoint and their total length is at most
\* total_similar_products_found.
C38_ReportTotals ==
    aggregation.pc = "returned" =>
        LET report == aggregation.report
        IN /\ report.total_similar_products_found = SumFound(report.processing_summary)
           /\ Len(report.processing_summary) = report.total_selected_products
           /\ report.total_selected_products = Len(aggregation.selected_products)
           /\ \A k \in 1..Len(Reported) :
                 \A p \in 1..Len(Reported[k].similar_products) :
                    LET x == Reported[k].similar_products[p]
                    IN /\ x.vendor_id = Reported[k].vendor_id
                       /\ InVendorLists(Reported, x) = InCorpus(aggregation.found, x)
           /\ \A k, l \in 1..Len(Reported) :
                 k # l => Reported[k].vendor_id # Reported[l].vendor_id
           /\ SumListed(Reported) <= report.total_similar_products_found

\* three selections with two similar products each: two vendors are listed
\* with five of the six products, the sixth is of a vendor that is not listed
C38_Witness ==
    /\ aggregation.pc = "returned"
    /\ aggregation.report.total_selected_products = 3
    /\ aggregation.report.total_similar_products_found = 6
    /\ Len(Reported) = 2
    /\ SumListed(Reported) = 5
    /\ Len(aggregation.vendor_overlaps) = 3

\* ------------------------------------------------------------ SpecSearch: the bot's search_vendor_overlap
\* basalam_bot/app/search_engine.py: search_vendor_overlap(products) searches
\* every term of the list once and reports the vendors met under two positions
\* or more. The bot runs it in a worker thread (asyncio.to_thread), where it
\* blocks at the GET of each term in turn, with the results of the terms
\* before it; it works on its locals only. In this specification
\* `aggregation` holds the call: its argument, what the search API answered
\* so far, the locals, and the value returned.

\* an id that is None; 0 is an id like any other here (`is None` tests)
NoneValue == -1

\* one item of the "products" array of a search response that is an object
\* whose "vendor" is an object; a key that is absent reads as None
\* (dict.get), and the empty name
\* stands for a name that is None or "", which `if item.get("vendor_name")`
\* and `v.get("vendor_name") or ""` treat alike
SearchRecord(id, vendor_id, vendor_name) ==
    [item |-> "object", id |-> id, vendor |-> "object",
     vendor_id |-> vendor_id, vendor_name |-> vendor_name]

\* an item that is an object whose "vendor" is no object: a falsy one (0, "",
\* [], false, null) or a truthy one (a number, a string, a list with elements,
\* true)
VendorShaped(id, shape) ==
    [item |-> "object", id |-> id, vendor |-> shape,
     vendor_id |-> NoneValue, vendor_name |-> <<>>]

\* an item that is no object (a number, a string, a list, null)
NotAnItem ==
    [item |-> "other", id |-> NoneValue, vendor |-> "falsy",
     vendor_id |-> NoneValue, vendor_name |-> <<>>]

\* the ids are integers or None and the names strings or None, as the
\* annotations of search_vendor_overlap have them (Dict[int, str])
SearchRecords ==
    {SearchRecord(1, 71, <<98>>), SearchRecord(2, 71, <<>>),
     SearchRecord(1, 72, <<98>>), SearchRecord(2, 72, <<97>>),
     SearchRecord(NoneValue, 71, <<97>>), SearchRecord(1, NoneValue, <<97>>),
     VendorShaped(1, "falsy"), VendorShaped(1, "truthy"), NotAnItem}

\* a 200 whose body is JSON and no object: a list, a string, a number, a
\* boolean, null
NotAnObject == [kind |-> "not_object", products |-> <<>>]

\* a 200 whose body is an object with a "products" that is no list: a falsy
\* one (0, "", {}, false, null) or a truthy one (a number, true, a string, an
\* object with keys)
ProductsShaped(shape) == [kind |-> shape, products |-> <<>>]

\* what one search can come to: a 200 whose body is an object with a list of
\* products (or without the key: the empty list), a 200 with a JSON body of
\* another shape, or one of the failures ("malformed" is a body that is not
\* JSON)
SearchResponses ==
    {Failure(kind) : kind \in FailureKinds}
        \cup {NotAnObject, ProductsShaped("falsy_products"), ProductsShaped("truthy_products")}
        \cup {Ok(products) : products \in SeqsUpTo(SearchRecords, 2)}

\* the lists of terms the function is called with: a term may come twice
SearchInputs ==
    {<<>>, <<"a">>, <<"a", "a">>, <<"a", "b">>, <<"a", "b", "a">>, <<"a", "b", "c">>}

\* What raises inside the try of _fetch_search_results_for_product falls
\* back to {}: a status other than 200, an exception of the transport, a
\* timeout, a body that response.json() cannot decode. A 200 whose body is
\* JSON is returned as it is.
\* payload.get("products", []) or []: the fallback {} has no products, and a
\* falsy "products" is replaced by the empty list
PayloadProducts(response) ==
    IF response.kind = "ok" THEN response.products ELSE <<>>

\* vendor = item.get("vendor") or {}: a falsy vendor is replaced by the empty
\* object, whose id and name read as None
VendorOfItem(item) ==
    IF item.vendor = "object"
    THEN [id |-> item.vendor_id, name |-> item.vendor_name]
    ELSE [id |-> NoneValue, name |-> <<>>]

\* _extract_minimal_products raises (AttributeError, TypeError), and nothing
\* catches it: payload.get of a body that is no object (line 39), the loop
\* over a truthy "products" that is no list (a number or true cannot be
\* iterated, the characters of a string and the keys of an object have no
\* get), item.get of an item that is no object (line 40), vendor.get of a
\* truthy vendor that is no object (line 43)
ExtractionRaises(response) ==
    \/ response.kind = "not_object"
    \/ response.kind = "truthy_products"
    \/ \E i \in 1..Len(PayloadProducts(response)) :
          LET item == PayloadProducts(response)[i]
          IN \/ item.item # "object"
             \/ item.vendor = "truthy"

\* _extract_minimal_products of a payload that does not raise, with the
\* query_term the caller adds
extract_minimal_products(payload_products, term) ==
    LET kept == SelectSeq(payload_products,
                          LAMBDA item : item.id # NoneValue /\ VendorOfItem(item).id # NoneValue)
    IN [i \in 1..Len(kept) |->
           [product_id |-> kept[i].id, vendor_id |-> VendorOfItem(kept[i]).id,
            vendor_name |-> VendorOfItem(kept[i]).name, query_term |-> term]]

\* the items of all positions, one position after the other
RECURSIVE AllItems(_)
AllItems(per_query_results) ==
    IF per_query_results = <<>> THEN <<>>
    ELSE AllItems(SubSeq(per_query_results, 1, Len(per_query_results) - 1))
            \o per_query_results[Len(per_query_results)]

\* vendor_to_query_indices[vendor_id]
VendorToQueryIndices(per_query_results, vendor_id) ==
    {i \in 1..Len(per_query_results) :
        \E j \in 1..Len(per_query_results[i]) :
           per_query_results[i][j].vendor_id = vendor_id}

\* vendor_names.get(vendor_id, ""): the first truthy name met for the vendor
vendor_names(per_query_results, vendor_id) ==
    LET items == AllItems(per_query_results)
        named == {p \in 1..Len(items) :
                     items[p].vendor_id = vendor_id /\ items[p].vendor_name # <<>>}
    IN IF named = {} THEN <<>> ELSE items[SetMin(named)].vendor_name

\* mutant: one position is enough
IsOverlapping_single(idxs) == Cardinality(idxs) >= 1

\* if len(idxs) >= 2
IsOverlapping(idxs) == Cardinality(idxs) >= 2

OverlappingVendors(per_query_results) ==
    LET items == AllItems(per_query_results)
    IN {vendor_id \in {items[p].vendor_id : p \in 1..Len(items)} :
           IsOverlapping(VendorToQueryIndices(per_query_results, vendor_id))}

\* the items of the overlapping vendors, the first one of every product_id
DedupedItems(per_query_results) ==
    LET output_items == SelectSeq(AllItems(per_query_results),
                           LAMBDA item : item.vendor_id \in OverlappingVendors(per_query_results))
        firsts == {p \in 1..Len(output_items) :
                      \A q \in 1..(p - 1) :
                         output_items[q].product_id # output_items[p].product_id}
    IN [k \in 1..Cardinality(firsts) |->
           output_items[CHOOSE p \in firsts : Cardinality({q \in firsts : q <= p}) = k]]

\* sorted(overlapping_vendors)
SortedIds(ids) ==
    [k \in 1..Cardinality(ids) |->
        CHOOSE v \in ids : Cardinality({w \in ids : w <= v}) = k]

\* the vendors_summary list before it is sorted
VendorsSummary(per_query_results) ==
    LET ids == SortedIds(OverlappingVendors(per_query_results))
    IN [k \in 1..Len(ids) |->
           [vendor_id |-> ids[k],
            vendor_name |-> vendor_names(per_query_results, ids[k]),
            matched_products |->
               Cardinality(VendorToQueryIndices(per_query_results, ids[k]))]]

\* key(v) <= key(w) for key = (-matched_products, vendor_name or "")
SummaryKeyLe(v, w) ==
    \/ v.matched_products > w.matched_products
    \/ /\ v.matched_products = w.matched_products
       /\ (v.vendor_name = w.vendor_name \/ StrLess(v.vendor_name, w.vendor_name))

\* vendors_summary.sort(key=...): list.sort is stable
RECURSIVE SortSummary(_)
SortSummary(vendors_summary) ==
    IF vendors_summary = <<>> THEN <<>>
    ELSE LET sorted == SortSummary(SubSeq(vendors_summary, 1, Len(vendors_summary) - 1))
             x == vendors_summary[Len(vendors_summary)]
             n == Cardinality({i \in 1..Len(sorted) : SummaryKeyLe(sorted[i], x)})
         IN SubSeq(sorted, 1, n) \o <<x>> \o SubSeq(sorted, n + 1, Len(sorted))

NoOverlap == [matches |-> <<>>, vendors |-> <<>>]

\* "Track vendor presence" to the return statement
OverlapOf(per_query_results) ==
    IF OverlappingVendors(per_query_results) = {}
    THEN NoOverlap
    ELSE [matches |-> DedupedItems(per_query_results),
          vendors |-> SortSummary(VendorsSummary(per_query_results))]

InitSearch ==
    /\ InitStore
    /\ call = NoCall
    /\ result = NoCall
    /\ IdleThreads
    /\ service = DefaultService
    /\ IdleAggregation

\* the locals of search_vendor_overlap, and the answers it has got
Searching(pc_, products, responses, per_query_results, value) ==
    [pc |-> pc_, products |-> products, responses |-> responses,
     per_query_results |-> per_query_results, value |-> value]

\* search_vendor_overlap(products) is called: an empty list is answered at
\* once, otherwise the GET of the first term is sent
S_Call(products) ==
    /\ aggregation.pc = "idle"
    /\ aggregation' =
          IF products = <<>>
          THEN Searching("returned", products, <<>>, <<>>, NoOverlap)
          ELSE Searching("get", products, <<>>, <<>>, NoOverlap)
    /\ UNCHANGED <<storevars, service, fetch, log, served>>

\* the GET of the term is over: its payload is extracted and appended, and
\* the GET of the next term is sent; a payload on which the extraction
\* raises ends the call without a value
S_Response(response) ==
    /\ aggregation.pc = "get"
    /\ LET index == Len(aggregation.per_query_results) + 1
           term == aggregation.products[index]
           responses == Append(aggregation.responses, response)
           minimal == extract_minimal_products(PayloadProducts(response), term)
       IN aggregation' =
             IF ExtractionRaises(response)
             THEN Searching("raised", aggregation.products, responses,
                            aggregation.per_query_results, NoOverlap)
             ELSE Searching(IF index = Len(aggregation.products) THEN "searched" ELSE "get",
                            aggregation.products, responses,
                            Append(aggregation.per_query_results, minimal), NoOverlap)
    /\ UNCHANGED <<storevars, service, fetch, log, served>>

\* every term has been searched: the overlap is computed and returned
S_Return ==
    /\ aggregation.pc = "searched"
    /\ aggregation' = [aggregation EXCEPT !.pc = "returned",
                                          !.value = OverlapOf(aggregation.per_query_results)]
    /\ UNCHANGED <<storevars, service, fetch, log, served>>

NextSearch ==
    \/ \E products \in SearchInputs : S_Call(products)
    \/ \E response \in SearchResponses : S_Response(response)
    \/ S_Return

SpecSearch == InitSearch /\ [][NextSearch]_vars

\* ------------------------------------------------------------ properties of the search
\* the positions of the input list whose search returned an item of the
\* vendor that carries a product id
PositionsOf(vendor_id) ==
    {i \in 1..Len(aggregation.products) :
        /\ aggregation.responses[i].kind = "ok"
        /\ \E p \in 1..Len(aggregation.responses[i].products) :
              /\ aggregation.responses[i].products[p].vendor_id = vendor_id
              /\ aggregation.responses[i].products[p].id # NoneValue}

Vendors == aggregation.value.vendors

\* C39: search_vendor_overlap lists a vendor exactly when it appears in the
\* results of at least two positions of the input list (a term given twice
\* counts twice), with matched_products the number of these positions; the
\* list is ordered by matched_products descending, then vendor name ascending,
\* then vendor id ascending; an empty input, or one without such a vendor,
\* yields empty matches and vendors. (A call in which the extraction of
\* an answer raises returns no value.)
C39_SearchVendorOverlap ==
    aggregation.pc = "returned" =>
        /\ \A vendor_id \in {71, 72} :
              Cardinality({k \in 1..Len(Vendors) : Vendors[k].vendor_id = vendor_id}) =
                 IF Cardinality(PositionsOf(vendor_id)) >= 2 THEN 1 ELSE 0
        /\ \A k \in 1..Len(Vendors) :
              /\ Vendors[k].vendor_id \in {71, 72}
              /\ Vendors[k].matched_products = Cardinality(PositionsOf(Vendors[k].vendor_id))
        /\ \A k \in 1..(Len(Vendors) - 1) :
              \/ Vendors[k].matched_products > Vendors[k + 1].matched_products
              \/ /\ Vendors[k].matched_products = Vendors[k + 1].matched_products
                 /\ StrLess(Vendors[k].vendor_name, Vendors[k + 1].vendor_name)
              \/ /\ Vendors[k].matched_products = Vendors[k + 1].matched_products
                 /\ Vendors[k].vendor_name = Vendors[k + 1].vendor_name
                 /\ Vendors[k].vendor_id < Vendors[k + 1].vendor_id
        /\ (\A vendor_id \in {71, 72} : Cardinality(PositionsOf(vendor_id)) < 2) =>
              aggregation.value = NoOverlap
        /\ aggregation.products = <<>> => aggregation.value = NoOverlap

\* the term "a" is given twice and vendor 71 is met under these two positions
\* only, vendor 72 under the first two: both are listed with 2 and the same
\* name, the smaller vendor id first
C39_Witness ==
    /\ aggregation.pc = "returned"
    /\ aggregation.products = <<"a", "b", "a">>
    /\ PositionsOf(71) = {1, 3}
    /\ PositionsOf(72) = {1, 2}
    /\ Len(Vendors) = 2
    /\ Vendors[1].vendor_id = 71
    /\ Vendors[2].vendor_id = 72
    /\ Vendors[1].vendor_name = <<98>>
    /\ Vendors[2].vendor_name = <<98>>
    /\ aggregation.responses[1].products[1].vendor_id = 72

====
